---- MODULE Spec2Model ----
(***************************************************************************)
(* A model of the ConjunctionAI library (cj): the bounded top-N            *)
(* containers, the fuzzy rule-based classifier and its evolutionary        *)
(* optimizer.                                                              *)
(*                                                                         *)
(* Three specifications share this module:                                 *)
(*   SpecTopN      one top_n_map / top_n_multimap / top_n_set /            *)
(*                 top_n_multiset object under try_insert and clear;       *)
(*   SpecRules     one fuzzy_classifier object under add_rule, rmv_rule    *)
(*                 and evaluate;                                           *)
(*   SpecEvolve    one call of fuzzy_classifier::evolve.                   *)
(* Each specification leaves the variables of the other two at their idle  *)
(* values.                                                                 *)
(***************************************************************************)
EXTENDS Integers, Sequences, FiniteSets, TLC

(***************************************************************************)
(* Bounds of the model.                                                    *)
(***************************************************************************)
\* Largest capacity a top-N container is created with.
MaxCap == 2
\* Keys offered to a container are 0..MaxKey.
MaxKey == 2
\* Mapped values offered to a container are 0..MaxVal.
MaxVal == 1
\* Number of try_insert calls followed since the container was last empty.
MaxOffered == 3
\* Largest number of rules the modelled callers put in one classifier.
MaxRules == 2
\* Input values of a data row are the fractions 0/InputDen .. InputDen/InputDen.
InputDen == 2
\* Largest t_max evolve is called with.
MaxT == 2
\* Largest number of mutations one individual receives in one generation.
MaxMutations == 1
\* Largest total a confusion matrix is brought to.
MaxCount == 3
\* Largest number of rows of a data matrix.
MaxRows == 2

(***************************************************************************)
(* Program constants.                                                      *)
(***************************************************************************)
\* alpha = 0.0005 = 1 / AlphaDen, the default complexity penalty of fuzzthat
AlphaDen == 2000

VARIABLES
  \* ---- top-N container (top_n_map.hh, top_n_set.hh) ----
  kind,        \* which instantiation: "map", "multimap", "set", "multiset"
  m_max_size,  \* top_n_map::m_max_size / top_n_set::m_max_size
  m_values,    \* the underlying ordered container, as its iteration sequence
  crashed,     \* the process was ended by undefined behaviour
  offered,     \* history: keys offered since the container was last empty
  last         \* history: the last call, its arguments, result and pre-state

topnVars == <<kind, m_max_size, m_values, crashed, offered, last>>

VARIABLES
  \* ---- one fuzzy_classifier object (fuzzy_classifier.hh) ----
  m_rules,     \* fuzzy_classifier::m_rules, as the flat_map's iteration sequence
  call         \* history: the last member call, its arguments, result and pre-state

ruleVars == <<m_rules, call>>

VARIABLES
  \* ---- one call of fuzzy_classifier::evolve ----
  pop_size,    \* parameter pop_size
  elites,      \* parameter elites
  t_max,       \* parameter t_max
  stop_at,     \* parameter stop, as the fitness from which it answers true
  pop,         \* vector<self_type> pop: index -> rule map
  fitnesses,   \* top_n_multimap<double, size_t> fitnesses
  t,           \* the generation counter t
  p,           \* the loop counter p of the loop the call is in
  fittest,     \* fitnesses.set_of_values(), taken after the stop test
  pc,          \* where the call is: "mutate", "stop", "mate", "done", "returned", "aborted"
  result,      \* the classifier returned
  gens,        \* history: generations mutated and evaluated so far
  fit_of,      \* history: index -> fitness computed in the current generation
  carried,     \* history: elite index -> its rule map when last evaluated
  parents,     \* history: index -> the parents picked for it in this reproduction step
  stop_arg     \* history: the value last passed to stop

evolveVars == <<pop_size, elites, t_max, stop_at, pop, fitnesses, t, p, fittest, pc,
                result, gens, fit_of, carried, parents, stop_arg>>

VARIABLES
  \* ---- one confusion object (confusion.hh) ----
  cmat,        \* the matrix m_c and the total m_count
  cmat_call    \* history: the last member call, its arguments and pre-state

confVars == <<cmat, cmat_call>>

VARIABLES
  \* ---- one call of a function without state ----
  fn_args,     \* the function called and its arguments
  fn_result    \* what the call returned, once it has

fnVars == <<fn_args, fn_result>>

VARIABLES
  \* ---- one call of fuzzthat's trial: evolve with trial's mutate ----
  tr_pop,      \* vector<self_type> pop: index -> rule map
  tr_pc,       \* where evolve is: "mutate", "stop", "mate", "returned"
  tr_p,        \* the loop counter p of the loop the call is in
  tr_m,        \* the loop counter m of the mutation loop of pop[p]
  tr_fittest,  \* fitnesses.set_of_values(), taken after the stop test
  tr_last,     \* history: what the last step did
  tr_child,    \* history: the slots rebuilt in the last reproduction step
  tr_mem       \* the interpretation objects, evolve's local inter and each pop[p].m_i

trialVars == <<tr_pop, tr_pc, tr_p, tr_m, tr_fittest, tr_last, tr_child, tr_mem>>

VARIABLES
  \* ---- one call of fuzzthat's parallel_trials ----
  trials,      \* parameter trials
  futures,     \* vector<std::future<classifier>> futures: the state of each
  completed,   \* the tasks whose call of trial has returned
  bests,       \* vector<classifier> bests, each as the task it came from
  tsses,       \* vector<double> tsses, each as the task it was computed from
  par_pc,      \* where the coordinator is: "seed", "dispatch", "join", "collect", "report", "done"
  par_seed,    \* parameter seed
  seeds,       \* vector<size_t> seeds
  rngs,        \* the state of each generator: 0 is parallel_trials' rng, i is the rng of task i
  outs         \* task -> the numbers its trial has drawn, which decide its classifier

parVars == <<trials, futures, completed, bests, tsses, par_pc, par_seed, seeds, rngs, outs>>

vars == <<topnVars, ruleVars, evolveVars, confVars, fnVars, trialVars, parVars>>

\* The variables each specification leaves alone.
exceptTopN == <<ruleVars, evolveVars, confVars, fnVars, trialVars, parVars>>
exceptRules == <<topnVars, evolveVars, confVars, fnVars, trialVars, parVars>>
exceptEvolve == <<topnVars, ruleVars, confVars, fnVars, trialVars, parVars>>
exceptConf == <<topnVars, ruleVars, evolveVars, fnVars, trialVars, parVars>>
exceptFn == <<topnVars, ruleVars, evolveVars, confVars, trialVars, parVars>>
exceptTrial == <<topnVars, ruleVars, evolveVars, confVars, fnVars, parVars>>
exceptPar == <<topnVars, ruleVars, evolveVars, confVars, fnVars, trialVars>>

(***************************************************************************)
(* Ordered containers.  An ordered (multi)map or (multi)set is modelled by *)
(* its iteration sequence: entries in ascending key order, entries with    *)
(* equal keys in insertion order.  A map entry is <<key, mapped>>, a set   *)
(* entry is <<key>>; in both the key is the first component.               *)
(***************************************************************************)
Keys == 0..MaxKey
Vals == 0..MaxVal
Kinds == {"map", "multimap", "set", "multiset"}

KeyOf(e) == e[1]

Min(a, b) == IF a < b THEN a ELSE b
Max(a, b) == IF a < b THEN b ELSE a

\* Number of positions of seq that hold x.
Count(seq, x) == Cardinality({i \in DOMAIN seq : seq[i] = x})

\* seq with its i-th element removed.
RemoveAt(seq, i) == SubSeq(seq, 1, i - 1) \o SubSeq(seq, i + 1, Len(seq))

\* seq with x placed so that exactly n elements precede it.
InsertAfter(seq, n, x) == SubSeq(seq, 1, n) \o <<x>> \o SubSeq(seq, n + 1, Len(seq))

HasKey(vals, k) == \E i \in DOMAIN vals : KeyOf(vals[i]) = k

\* std::multimap::insert / std::multiset::insert: the new entry goes to the
\* upper bound of its key, after every entry whose key is not greater.
InsertMulti(vals, e) ==
  InsertAfter(vals, Cardinality({i \in DOMAIN vals : ~(KeyOf(e) < KeyOf(vals[i]))}), e)

\* std::map::insert / std::set::insert: nothing happens when the key is present.
InsertUnique(vals, e) ==
  IF HasKey(vals, KeyOf(e)) THEN vals ELSE InsertMulti(vals, e)

\* erase(begin())
EraseBegin(vals) == Tail(vals)

(***************************************************************************)
(* try_insert.  Each operator gives the set of outcomes of one call:       *)
(* the container afterwards, the value returned, and whether the process   *)
(* was ended.  A call on an empty container that is not below its maximum  *)
(* size (m_max_size = 0) dereferences begin() = end(): undefined           *)
(* behaviour, whose outcomes are a refusal (the value read does not        *)
(* compare below k), an insertion (it does, and erase(end()) does not      *)
(* stop the process), or the end of the process.                           *)
(***************************************************************************)
Outcome(vals, ret) == [values |-> vals, ret |-> ret, abort |-> FALSE]

DerefEndOutcomes(vals, e) ==
  { Outcome(vals, FALSE),
    Outcome(InsertMulti(vals, e), TRUE),
    [values |-> vals, ret |-> FALSE, abort |-> TRUE] }

\* A variant of the multimap try_insert that also accepts a key equal to
\* the minimum; the eviction property distinguishes it from the code.
MapTryInsertMultiLeq(vals, max, k, m) ==
  IF Len(vals) < max THEN {Outcome(InsertMulti(vals, <<k, m>>), TRUE)}
  ELSE IF vals = <<>> THEN DerefEndOutcomes(vals, <<k, m>>)
  ELSE IF ~(k < KeyOf(vals[1]))
    THEN {Outcome(InsertMulti(EraseBegin(vals), <<k, m>>), TRUE)}
    ELSE {Outcome(vals, FALSE)}

\* top_n_map::try_insert, multimap instantiation.
MapTryInsertMulti(vals, max, k, m) ==
  IF Len(vals) < max THEN {Outcome(InsertMulti(vals, <<k, m>>), TRUE)}
  ELSE IF vals = <<>> THEN DerefEndOutcomes(vals, <<k, m>>)
  ELSE IF KeyOf(vals[1]) < k
    THEN {Outcome(InsertMulti(EraseBegin(vals), <<k, m>>), TRUE)}
    ELSE {Outcome(vals, FALSE)}

\* top_n_map::try_insert, map instantiation.
MapTryInsertUnique(vals, max, k, m) ==
  IF Len(vals) < max THEN {Outcome(InsertUnique(vals, <<k, m>>), TRUE)}
  ELSE IF vals = <<>> THEN DerefEndOutcomes(vals, <<k, m>>)
  ELSE IF KeyOf(vals[1]) < k /\ ~HasKey(vals, k)
    THEN {Outcome(InsertUnique(EraseBegin(vals), <<k, m>>), TRUE)}
    ELSE {Outcome(vals, FALSE)}

\* top_n_set::try_insert, multiset instantiation.
SetTryInsertMulti(vals, max, k) ==
  IF Len(vals) < max THEN {Outcome(InsertMulti(vals, <<k>>), TRUE)}
  ELSE IF vals = <<>> THEN DerefEndOutcomes(vals, <<k>>)
  ELSE IF KeyOf(vals[1]) < k
    THEN {Outcome(InsertMulti(EraseBegin(vals), <<k>>), TRUE)}
    ELSE {Outcome(vals, FALSE)}

\* top_n_set::try_insert, set instantiation.
SetTryInsertUnique(vals, max, k) ==
  IF Len(vals) < max THEN {Outcome(InsertUnique(vals, <<k>>), TRUE)}
  ELSE IF vals = <<>> THEN DerefEndOutcomes(vals, <<k>>)
  ELSE IF KeyOf(vals[1]) < k /\ ~HasKey(vals, k)
    THEN {Outcome(InsertUnique(EraseBegin(vals), <<k>>), TRUE)}
    ELSE {Outcome(vals, FALSE)}

\* The try_insert overload the instantiation selects.
TryInsertOutcomes(kd, vals, max, k, m) ==
  CASE kd = "multimap" -> MapTryInsertMulti(vals, max, k, m)
    [] kd = "map"      -> MapTryInsertUnique(vals, max, k, m)
    [] kd = "multiset" -> SetTryInsertMulti(vals, max, k)
    [] kd = "set"      -> SetTryInsertUnique(vals, max, k)

\* size(), max_size(), is_full(), maximum(), maximum_key(), set_of_values()
Size(vals) == Len(vals)
IsFull(vals, max) == Len(vals) = max
\* A variant of maximum() that reads begin() instead of rbegin().
MaximumAtBegin(vals) == vals[1]
Maximum(vals) == vals[Len(vals)]
MaximumKey(vals) == KeyOf(vals[Len(vals)])
SetOfValues(vals) == {vals[i][2] : i \in DOMAIN vals}

(***************************************************************************)
(* SpecTopN: one container, created empty with any capacity 0..MaxCap.     *)
(***************************************************************************)
NoCall == [op |-> "none", k |-> 0, m |-> 0, ret |-> FALSE, before |-> <<>>]

\* History: the keys offered, kept in descending order.
OfferKey(seq, k) ==
  InsertAfter(seq, Cardinality({i \in DOMAIN seq : seq[i] >= k}), k)

TopNInit ==
  /\ kind \in Kinds
  /\ m_max_size \in 0..MaxCap
  /\ m_values = <<>>
  /\ crashed = FALSE
  /\ offered = <<>>
  /\ last = NoCall

TryInsert(k, m) ==
  /\ ~crashed
  /\ Len(offered) < MaxOffered
  /\ \E o \in TryInsertOutcomes(kind, m_values, m_max_size, k, m) :
       /\ m_values' = o.values
       /\ crashed' = o.abort
       /\ last' = [op |-> "try_insert", k |-> k, m |-> m, ret |-> o.ret,
                   before |-> m_values]
  /\ offered' = OfferKey(offered, k)
  /\ UNCHANGED <<kind, m_max_size>>

Clear ==
  /\ ~crashed
  /\ m_values' = <<>>
  /\ offered' = <<>>
  /\ last' = [NoCall EXCEPT !.op = "clear", !.before = m_values]
  /\ UNCHANGED <<kind, m_max_size, crashed>>

(***************************************************************************)
(* Truth values (truth.hh).  A truth value v in [0, 1] is the integer      *)
(* v * TruthScale; TruthScale is a power of InputDen large enough for      *)
(* every product the model forms to be exact.                              *)
(***************************************************************************)
Logics == {"lukasiewicz", "godel", "product"}

\* One input variable with two fuzzy sets, as fuzzthat's make_interpretation
\* builds for the first variable, and a second one with nsets = 2.
Interpretation == <<2, 2>>
\* make_interpretation({"Non-interaction", "Interaction"})
NumCategories == 2
Categories == 0..(NumCategories - 1)

TruthScale == InputDen ^ (Len(Interpretation) * MaxRules)

\* truth_type{0}, truth_type{1}
Zero == 0
Unit == TruthScale

\* operator&& : strong conjunction
StrongAnd(logic, a, b) ==
  CASE logic = "lukasiewicz" -> Max(0, a + b - Unit)
    [] logic = "godel"       -> Min(a, b)
    [] logic = "product"     -> (a * b) \div TruthScale

\* operator& : weak conjunction
WeakAnd(logic, a, b) == Min(a, b)

\* operator| : weak disjunction, which evaluate does not use: it stands for
\* an evaluate that aggregates with | in the place of ||.
WeakOr(logic, a, b) == Max(a, b)

\* operator|| : strong disjunction
StrongOr(logic, a, b) ==
  CASE logic = "lukasiewicz" -> Min(Unit, a + b)
    [] logic = "godel"       -> Max(a, b)
    [] logic = "product"     -> a + b - ((a * b) \div TruthScale)

(***************************************************************************)
(* Fuzzy partitions (fuzzy_partition.hh) over the domain [0, 1], with      *)
(* inputs and breakpoints counted in units of 1/InputDen.                  *)
(***************************************************************************)
\* make_slope(begin, end, before, after)(x)
MakeSlope(begin, end, before, after, x) ==
  IF x < begin THEN before
  ELSE IF x < end
    THEN (before * ((end - begin) - (x - begin))
          + after * ((end - begin) - (end - x))) \div (end - begin)
    ELSE after

\* make_triangle(begin, i_apex, end, before, t_apex, after)(x)
MakeTriangle(begin, apex, end, before, t_apex, after, x) ==
  IF x < begin THEN before
  ELSE IF x < apex
    THEN (before * ((apex - begin) - (x - begin))
          + t_apex * ((apex - begin) - (apex - x))) \div (apex - begin)
  ELSE IF x < end
    THEN (t_apex * ((end - apex) - (x - apex))
          + after * ((end - apex) - (end - x))) \div (end - apex)
    ELSE after

\* make_triangles(n, 0, 1, floor = 0, ceil = 1)[s](x), for n >= 2 dividing the
\* domain into n - 1 steps.  The breakpoints are kept in units of
\* 1 / (InputDen * (n - 1)) so that the step is a whole number.
MakeTriangles(n, s, x) ==
  LET step == InputDen
      end  == InputDen * (n - 1)
      xx   == x * (n - 1)
  IN  IF s = 0 THEN MakeSlope(0, step, Unit, Zero, xx)
      ELSE IF s = n - 1 THEN MakeSlope(end - step, end, Zero, Unit, xx)
      ELSE MakeTriangle((s - 1) * step, s * step, (s + 1) * step, Zero, Unit, Zero, xx)

\* interpretation::num_input, num_partitions, get(n, s, x)
NumInput(inter) == Len(inter)
NumPartitions(inter, n) == inter[n + 1]
Membership(inter, n, s, x) == MakeTriangles(inter[n + 1], s, x)

InputValues == 0..InputDen
Rows(inter) == [1..Len(inter) -> InputValues]

(***************************************************************************)
(* Antecedents and rule maps.  An antecedent (flat_map<id, id>) is the     *)
(* sequence of its <<input id, set id>> pairs in ascending input id; a     *)
(* rule map (flat_map<antecedent, id>) is the sequence of its              *)
(* <<antecedent, category>> rules in ascending antecedent order.           *)
(***************************************************************************)
Absent == -1
IsPresent(pr) == pr[2] # Absent

SetIds(inter, n) == 0..(inter[n + 1] - 1)
AllSetIds(inter) == UNION {SetIds(inter, i - 1) : i \in DOMAIN inter}

Antecedents(inter) ==
  { SelectSeq([i \in 1..Len(inter) |-> <<i - 1, f[i]>>], IsPresent) :
      f \in { g \in [1..Len(inter) -> AllSetIds(inter) \cup {Absent}] :
                \A i \in 1..Len(inter) : g[i] = Absent \/ g[i] \in SetIds(inter, i - 1) } }

\* std::pair operator<
PairLess(x, y) == x[1] < y[1] \/ (x[1] = y[1] /\ x[2] < y[2])

\* flat_map operator< : std::lexicographical_compare
RECURSIVE AnteLess(_, _)
AnteLess(a, b) ==
  IF b = <<>> THEN FALSE
  ELSE IF a = <<>> THEN TRUE
  ELSE IF PairLess(a[1], b[1]) THEN TRUE
  ELSE IF PairLess(b[1], a[1]) THEN FALSE
  ELSE AnteLess(Tail(a), Tail(b))

\* m_rules.find(a): the position of antecedent a, 0 for end()
Find(rules, a) ==
  IF \E i \in DOMAIN rules : rules[i][1] = a
    THEN CHOOSE i \in DOMAIN rules : rules[i][1] = a
    ELSE 0

\* position before which a new key is placed (lower bound)
LowerBound(rules, a) == Cardinality({i \in DOMAIN rules : AnteLess(rules[i][1], a)})

\* flat_map::insert(r): no effect when the key is present
RulesInsert(rules, r) ==
  IF Find(rules, r[1]) # 0 THEN rules
  ELSE InsertAfter(rules, LowerBound(rules, r[1]), r)

\* m_rules[a] = c
RulesAssign(rules, a, c) ==
  IF Find(rules, a) # 0 THEN [rules EXCEPT ![Find(rules, a)] = <<a, c>>]
  ELSE InsertAfter(rules, LowerBound(rules, a), <<a, c>>)

\* m_rules.erase(a)
RulesErase(rules, a) ==
  IF Find(rules, a) # 0 THEN RemoveAt(rules, Find(rules, a)) ELSE rules

\* fuzzy_classifier(i, initial_rules): the empty antecedent is dropped
NewClassifier(initial_rules) == RulesErase(initial_rules, <<>>)

\* has_rule(a, c)
HasRule(rules, a, c) == Find(rules, a) # 0 /\ rules[Find(rules, a)][2] = c

\* has_antecedent(a)
HasAntecedent(rules, a) == Find(rules, a) # 0

\* A variant of add_rule that does not test a.empty().
AddRuleUnguarded(rules, a, c) == [rules |-> RulesAssign(rules, a, c), ret |-> TRUE]

\* add_rule(antecedent_type const& a, id_type c)
AddRule(rules, a, c) ==
  IF a # <<>> THEN [rules |-> RulesAssign(rules, a, c), ret |-> TRUE]
  ELSE [rules |-> rules, ret |-> FALSE]

\* add_rule(rule_type const& r)
AddRulePair(rules, r) ==
  IF r[1] # <<>> THEN [rules |-> RulesInsert(rules, r), ret |-> TRUE]
  ELSE [rules |-> rules, ret |-> FALSE]

\* rmv_rule(a)
RmvRule(rules, a) == RulesErase(rules, a)

\* rule_type{}: the rule returned for an empty classifier
EmptyRule == << <<>>, 0 >>

\* A variant of pop_random_rule that draws without erasing.
PopRandomRuleKept(rules) ==
  IF rules = <<>> THEN {[rule |-> EmptyRule, rules |-> rules]}
  ELSE {[rule |-> rules[by], rules |-> rules] : by \in DOMAIN rules}

\* A variant of get_random_rule whose rule for an empty classifier is not
\* value-initialised.
GetRandomRuleSeeded(rules) ==
  IF rules = <<>> THEN {<< << <<0, 0>> >>, 0 >>} ELSE {rules[by] : by \in DOMAIN rules}

\* get_random_rule(rng): the rules one call can return, over the draws of
\* unif(rng) in 0..size()-1
GetRandomRule(rules) ==
  IF rules = <<>> THEN {EmptyRule} ELSE {rules[by] : by \in DOMAIN rules}

\* pop_random_rule(rng): the outcomes of one call, the rule returned and
\* the rules left after m_rules.erase(it)
PopRandomRule(rules) ==
  IF rules = <<>> THEN {[rule |-> EmptyRule, rules |-> rules]}
  ELSE {[rule |-> rules[by], rules |-> RemoveAt(rules, by)] : by \in DOMAIN rules}

\* complexity(): sum_key_sizes(begin, end, size())
RECURSIVE SumKeySizes(_, _)
SumKeySizes(rules, acc) ==
  IF rules = <<>> THEN acc ELSE SumKeySizes(Tail(rules), acc + Len(rules[1][1]))

\* A variant of complexity that starts the sum at 0 instead of size().
ComplexityFromZero(rules) == SumKeySizes(rules, 0)

Complexity(rules) == SumKeySizes(rules, Len(rules))

(***************************************************************************)
(* evaluate (fuzzy_classifier.hh).                                         *)
(***************************************************************************)
\* the inner loop: truth = truth && m_i->get(v.first, v.second, row.at(v.first))
RECURSIVE RuleTruth(_, _, _, _, _)
RuleTruth(logic, inter, ante, row, truth) ==
  IF ante = <<>> THEN truth
  ELSE RuleTruth(logic, inter, Tail(ante), row,
         StrongAnd(logic, truth, Membership(inter, ante[1][1], ante[1][2], row[ante[1][1] + 1])))

\* the outer loop: truth_by_classes[rule.second] = truth_by_classes[rule.second] || truth
RECURSIVE TruthByClasses(_, _, _, _, _)
TruthByClasses(logic, inter, rules, row, tbc) ==
  IF rules = <<>> THEN tbc
  ELSE TruthByClasses(logic, inter, Tail(rules), row,
         [tbc EXCEPT ![rules[1][2]] =
            StrongOr(logic, tbc[rules[1][2]],
                     RuleTruth(logic, inter, rules[1][1], row, Unit))])

\* vector<truth_type>(m_i->num_categories(), truth_type{0})
ZeroTruths == [c \in Categories |-> Zero]

\* idx_of_maximum(c): the scan for (i = 1; i < size; ++i) if (c[idx] < c[i]) idx = i
RECURSIVE IdxOfMaximumFrom(_, _, _)
IdxOfMaximumFrom(c, idx, i) ==
  IF i >= NumCategories THEN idx
  ELSE IdxOfMaximumFrom(c, IF c[idx] < c[i] THEN i ELSE idx, i + 1)

\* A variant of idx_of_maximum whose scan also replaces idx on a tie:
\* if (!(c[i] < c[idx])) idx = i
RECURSIVE IdxOfMaximumFromLeq(_, _, _)
IdxOfMaximumFromLeq(c, idx, i) ==
  IF i >= NumCategories THEN idx
  ELSE IdxOfMaximumFromLeq(c, IF ~(c[i] < c[idx]) THEN i ELSE idx, i + 1)

IdxOfMaximumLeq(c) == IdxOfMaximumFromLeq(c, 0, 1)

IdxOfMaximum(c) == IdxOfMaximumFrom(c, 0, 1)

\* evaluate(row)
Evaluate(logic, inter, rules, row) ==
  IdxOfMaximum(TruthByClasses(logic, inter, rules, row, ZeroTruths))

(***************************************************************************)
(* SpecRules: one classifier over Interpretation, created empty, under     *)
(* its member functions.  The truth type is a template parameter that      *)
(* only evaluate reads, so the family is an input of Evaluate.             *)
(***************************************************************************)
NoMember == [op |-> "none", a |-> <<>>, c |-> 0, ret |-> FALSE, before |-> <<>>,
             logic |-> "none", row |-> <<>>, truths |-> ZeroTruths]

AllAntecedents == Antecedents(Interpretation)

RulesInit ==
  /\ m_rules = NewClassifier(<<>>)
  /\ call = NoMember

\* c.add_rule(a, c)
DoAddRule(a, c) ==
  /\ a = <<>> \/ Len(m_rules) < MaxRules \/ HasAntecedent(m_rules, a)
  /\ m_rules' = AddRule(m_rules, a, c).rules
  /\ call' = [NoMember EXCEPT !.op = "add_rule", !.a = a, !.c = c,
                !.ret = AddRule(m_rules, a, c).ret, !.before = m_rules]

\* c.add_rule(rule_type{a, c})
DoAddRulePair(a, c) ==
  /\ a = <<>> \/ Len(m_rules) < MaxRules \/ HasAntecedent(m_rules, a)
  /\ m_rules' = AddRulePair(m_rules, <<a, c>>).rules
  /\ call' = [NoMember EXCEPT !.op = "add_rule_pair", !.a = a, !.c = c,
                !.ret = AddRulePair(m_rules, <<a, c>>).ret, !.before = m_rules]

\* c.rmv_rule(a)
DoRmvRule(a) ==
  /\ m_rules' = RmvRule(m_rules, a)
  /\ call' = [NoMember EXCEPT !.op = "rmv_rule", !.a = a, !.before = m_rules]

\* c.get_random_rule(rng)
DoGetRandomRule ==
  /\ \E r \in GetRandomRule(m_rules) :
       call' = [NoMember EXCEPT !.op = "get_random_rule", !.a = r[1], !.c = r[2],
                  !.before = m_rules]
  /\ m_rules' = m_rules

\* c.pop_random_rule(rng)
DoPopRandomRule ==
  \E o \in PopRandomRule(m_rules) :
    /\ m_rules' = o.rules
    /\ call' = [NoMember EXCEPT !.op = "pop_random_rule", !.a = o.rule[1],
                  !.c = o.rule[2], !.before = m_rules]

\* c.evaluate(row), for a classifier of truth type logic
DoEvaluate(logic, row) ==
  /\ m_rules' = m_rules
  /\ call' = [NoMember EXCEPT !.op = "evaluate", !.logic = logic, !.row = row,
                !.before = m_rules,
                !.truths = TruthByClasses(logic, Interpretation, m_rules, row, ZeroTruths),
                !.c = Evaluate(logic, Interpretation, m_rules, row)]

(***************************************************************************)
(* Confusion matrix (confusion.hh) and evaluate_all.                       *)
(***************************************************************************)
\* confusion(dim): matrix_type::Constant(dim, dim, 0), m_count{0}
NewConfusion == [m_c |-> [po \in Categories \X Categories |-> 0], m_count |-> 0]

\* add_count(predicted, observed, add)
AddCount(conf, predicted, observed, add) ==
  [m_c |-> [conf.m_c EXCEPT ![<<predicted, observed>>] = @ + add],
   m_count |-> conf.m_count + add]

\* A variant of sub_count that subtracts without comparing with the cell.
SubCountUnclamped(c, predicted, observed, sub) ==
  [m_c |-> [c.m_c EXCEPT ![<<predicted, observed>>] = @ - sub],
   m_count |-> c.m_count - sub]

\* sub_count(predicted, observed, sub)
SubCount(c, predicted, observed, sub) ==
  IF c.m_c[<<predicted, observed>>] < sub
    THEN [m_c |-> [c.m_c EXCEPT ![<<predicted, observed>>] = 0],
          m_count |-> c.m_count - c.m_c[<<predicted, observed>>]]
    ELSE [m_c |-> [c.m_c EXCEPT ![<<predicted, observed>>] = @ - sub],
          m_count |-> c.m_count - sub]

RECURSIVE SumOver(_, _)
SumOver(f, S) ==
  IF S = {} THEN 0
  ELSE LET x == CHOOSE y \in S : TRUE IN f[x] + SumOver(f, S \ {x})

TruePositives(conf, c) == conf.m_c[<<c, c>>]
\* A variant of false_positives that returns the whole row sum.
FalsePositivesWithDiagonal(conf, c) ==
  SumOver(conf.m_c, {<<c, i>> : i \in Categories})

FalsePositives(conf, c) ==
  SumOver(conf.m_c, {<<c, i>> : i \in Categories}) - conf.m_c[<<c, c>>]
FalseNegatives(conf, c) ==
  SumOver(conf.m_c, {<<i, c>> : i \in Categories}) - conf.m_c[<<c, c>>]
TrueNegatives(conf, c) ==
  conf.m_count - (FalsePositives(conf, c) + FalseNegatives(conf, c) + TruePositives(conf, c))

\* tss(c) = TssNum / TssDen
TssNum(conf, c) ==
  TruePositives(conf, c) * TrueNegatives(conf, c)
    - FalsePositives(conf, c) * FalseNegatives(conf, c)
TssDen(conf, c) ==
  (TruePositives(conf, c) + FalseNegatives(conf, c))
    * (FalsePositives(conf, c) + TrueNegatives(conf, c))

(***************************************************************************)
(* SpecConfusion: one confusion<size_t> object of dimension NumCategories, *)
(* created empty, under add_count and sub_count.  The counts added keep    *)
(* the total within MaxCount, far below the range of size_t.               *)
(***************************************************************************)
NoCount == [op |-> "none", predicted |-> 0, observed |-> 0, n |-> 0,
            before |-> NewConfusion]

ConfInit == cmat = NewConfusion /\ cmat_call = NoCount

\* c.add_count(predicted, observed, add)
DoAddCount(predicted, observed, add) ==
  /\ cmat.m_count + add <= MaxCount
  /\ cmat' = AddCount(cmat, predicted, observed, add)
  /\ cmat_call' = [op |-> "add_count", predicted |-> predicted, observed |-> observed,
                   n |-> add, before |-> cmat]

\* c.sub_count(predicted, observed, sub)
DoSubCount(predicted, observed, sub) ==
  /\ cmat' = SubCount(cmat, predicted, observed, sub)
  /\ cmat_call' = [op |-> "sub_count", predicted |-> predicted, observed |-> observed,
                   n |-> sub, before |-> cmat]

\* evaluate_all(dm): for (row : dm) results.add_count(evaluate(row.first), row.second)
\* A variant of evaluate_all that passes add_count the observed category
\* first and the predicted one second.
RECURSIVE EvaluateAllSwapped(_, _, _, _, _)
EvaluateAllSwapped(logic, inter, rules, dm, results) ==
  IF dm = <<>> THEN results
  ELSE EvaluateAllSwapped(logic, inter, rules, Tail(dm),
         AddCount(results, dm[1][2], Evaluate(logic, inter, rules, dm[1][1]), 1))

RECURSIVE EvaluateAllFrom(_, _, _, _, _)
EvaluateAllFrom(logic, inter, rules, dm, results) ==
  IF dm = <<>> THEN results
  ELSE EvaluateAllFrom(logic, inter, rules, Tail(dm),
         AddCount(results, Evaluate(logic, inter, rules, dm[1][1]), dm[1][2], 1))

EvaluateAll(logic, inter, rules, dm) ==
  EvaluateAllFrom(logic, inter, rules, dm, NewConfusion)

(***************************************************************************)
(* Set helpers (set.hh, random.hh).                                        *)
(***************************************************************************)
\* map_intersection_split_union(xs, ys, rng), ordered maps: every map the
\* merge can return, over the draws of unif(rng).  i and j are the positions
\* of xs_it and ys_it, m the map built so far.
\* A merge that may also leave out a key found in both maps.
RECURSIVE SplitUnionFromLossy(_, _, _, _, _)
SplitUnionFromLossy(xs, ys, i, j, m) ==
  IF i <= Len(xs) /\ j <= Len(ys) THEN
    IF AnteLess(xs[i][1], ys[j][1]) THEN
      SplitUnionFromLossy(xs, ys, i + 1, j, Append(m, xs[i]))
        \cup SplitUnionFromLossy(xs, ys, i + 1, j, m)
    ELSE IF ~AnteLess(ys[j][1], xs[i][1]) THEN
      SplitUnionFromLossy(xs, ys, i + 1, j + 1, Append(m, xs[i]))
        \cup SplitUnionFromLossy(xs, ys, i + 1, j + 1, m)
    ELSE
      SplitUnionFromLossy(xs, ys, i, j + 1, Append(m, ys[j]))
        \cup SplitUnionFromLossy(xs, ys, i, j + 1, m)
  ELSE IF i <= Len(xs) THEN
    SplitUnionFromLossy(xs, ys, i + 1, j, Append(m, xs[i]))
      \cup SplitUnionFromLossy(xs, ys, i + 1, j, m)
  ELSE IF j <= Len(ys) THEN
    SplitUnionFromLossy(xs, ys, i, j + 1, Append(m, ys[j]))
      \cup SplitUnionFromLossy(xs, ys, i, j + 1, m)
  ELSE {m}

RECURSIVE SplitUnionFrom(_, _, _, _, _)
SplitUnionFrom(xs, ys, i, j, m) ==
  IF i <= Len(xs) /\ j <= Len(ys) THEN
    IF AnteLess(xs[i][1], ys[j][1]) THEN
      SplitUnionFrom(xs, ys, i + 1, j, Append(m, xs[i]))
        \cup SplitUnionFrom(xs, ys, i + 1, j, m)
    ELSE IF ~AnteLess(ys[j][1], xs[i][1]) THEN
      SplitUnionFrom(xs, ys, i + 1, j + 1, Append(m, xs[i]))
        \cup SplitUnionFrom(xs, ys, i + 1, j + 1, Append(m, ys[j]))
    ELSE
      SplitUnionFrom(xs, ys, i, j + 1, Append(m, ys[j]))
        \cup SplitUnionFrom(xs, ys, i, j + 1, m)
  ELSE IF i <= Len(xs) THEN
    SplitUnionFrom(xs, ys, i + 1, j, Append(m, xs[i]))
      \cup SplitUnionFrom(xs, ys, i + 1, j, m)
  ELSE IF j <= Len(ys) THEN
    SplitUnionFrom(xs, ys, i, j + 1, Append(m, ys[j]))
      \cup SplitUnionFrom(xs, ys, i, j + 1, m)
  ELSE {m}

MapIntersectionSplitUnion(xs, ys) == SplitUnionFrom(xs, ys, 1, 1, <<>>)

\* get(c, n) on an ordered set of integers: its n-th element, counting from 0
RECURSIVE SortedSeq(_)
SortedSeq(S) ==
  IF S = {} THEN <<>>
  ELSE LET x == CHOOSE y \in S : \A z \in S : y <= z IN <<x>> \o SortedSeq(S \ {x})

Get(c, n) == SortedSeq(c)[n + 1]

\* unique_integers(n, begin, end, rng): the sets of min(n, end - begin)
\* integers of begin..end-1 it can return
UniqueIntegers(n, begin, end) ==
  IF end <= begin THEN {{}}
  ELSE {u \in SUBSET (begin..(end - 1)) : Cardinality(u) = Min(n, end - begin)}

\* pick_unique_pair(c, rng): the outcomes of one call.  idx holds
\* min(2, c.size()) positions; with one element in c, get(idx, 1) reads past
\* the end of idx: undefined behaviour, whose outcomes are the end of the
\* process or any index in the place of the second parent.
PickUniquePair(c, indices) ==
  IF Cardinality(c) >= 2
    THEN { [pair |-> <<Get(c, Get(idx, 0)), Get(c, Get(idx, 1))>>, abort |-> FALSE] :
             idx \in UniqueIntegers(2, 0, Cardinality(c)) }
    ELSE { [pair |-> <<Get(c, 0), g>>, abort |-> FALSE] : g \in indices }
           \cup { [pair |-> <<Get(c, 0), Get(c, 0)>>, abort |-> TRUE] }

(***************************************************************************)
(* SpecEvolve: one call of fuzzy_classifier::evolve, with the parameters   *)
(* fuzzthat's trial passes: the seeded two-rule classifier as initial and  *)
(* tss(1) - alpha * complexity as fit.  mut is any function of the         *)
(* classifier and stop any threshold on the best fitness.                  *)
(***************************************************************************)
\* The interpretation of the evolving classifiers: one input variable, two sets.
EvolveInterpretation == <<2>>
\* The truth type of the evolving classifiers: fuzzthat's default logic.
EvolveLogic == "lukasiewicz"
\* The training data: (input row, category) pairs holding both categories.
Training == << <<<<0>>, 0>>, <<<<1>>, 1>>, <<<<InputDen>>, 1>> >>

\* rule0, rule1 and initial_rule of trial
Rule0 == << << <<0, 0>> >>, 0 >>
Rule1 == << << <<0, 1>> >>, 1 >>
InitialRule == NewClassifier(RulesInsert(RulesInsert(<<>>, Rule0), Rule1))

\* fit: tss(1) - alpha * complexity, multiplied by AlphaDen * TssDen.  TssDen
\* is (rows observed 1) * (rows observed 0), the same positive number for
\* every classifier, so the order of the fitnesses is kept.
Fitness(rules) ==
  LET conf == EvaluateAll(EvolveLogic, EvolveInterpretation, rules, Training)
  IN  TssNum(conf, 1) * AlphaDen - Complexity(rules) * TssDen(conf, 1)

\* stop: true from the fitness stop_at on.  One level that the seeded
\* classifier misses and a fitter classifier reaches, and one that no
\* classifier reaches (fuzzthat's fit >= 1.0 is of the second kind).
StopLevels == {AlphaDen, AlphaDen * AlphaDen}
Stop(level, fitness) == fitness >= level

\* mut(pop[p], rng): the classifiers one call can leave, through the
\* classifier's mutating members (or none of them).
Mut(rules) ==
  {rules}
    \cup {AddRule(rules, a, c).rules :
            a \in Antecedents(EvolveInterpretation), c \in Categories}
    \cup {AddRulePair(rules, <<a, c>>).rules :
            a \in Antecedents(EvolveInterpretation), c \in Categories}
    \cup {RmvRule(rules, a) : a \in Antecedents(EvolveInterpretation)}

\* for (m = 0; m < num_mutations; ++m) mut(pop[p], rng)
RECURSIVE MutateTimes(_, _)
MutateTimes(rules, n) ==
  IF n = 0 THEN {rules} ELSE UNION {MutateTimes(r, n - 1) : r \in Mut(rules)}

\* The non-empty antecedents of an interpretation in the order of the rule
\* map's keys.
RECURSIVE SortAntes(_)
SortAntes(S) ==
  IF S = {} THEN <<>>
  ELSE LET x == CHOOSE y \in S : \A z \in S : y = z \/ AnteLess(y, z)
       IN  <<x>> \o SortAntes(S \ {x})

\* Every rule map a classifier over inter can hold.
AllRuleMaps(inter) ==
  LET antes == SortAntes(Antecedents(inter) \ {<<>>})
  IN  { SelectSeq([i \in DOMAIN antes |-> <<antes[i], f[i]>>], IsPresent) :
          f \in [DOMAIN antes -> Categories \cup {Absent}] }

\* fit and the mutation loop, tabulated over the classifiers of the population.
FitnessOf == [r \in AllRuleMaps(EvolveInterpretation) |-> Fitness(r)]
MutationsOf ==
  [r \in AllRuleMaps(EvolveInterpretation) |->
     UNION {MutateTimes(r, n) : n \in 0..MaxMutations}]

\* The population sizes evolve is called with: the smallest its assertions
\* admit, and the smallest that admits two elites.
PopSizes == {2, 3}

Indices == 0..(pop_size - 1)
Nothing == <<>>

EvolveInit ==
  /\ pop_size \in PopSizes
  /\ elites \in 1..(pop_size - 1)
  /\ t_max \in 1..MaxT
  /\ stop_at \in StopLevels
  /\ pop = [i \in 0..(pop_size - 1) |-> InitialRule]
  /\ fitnesses = <<>>
  /\ t = 0
  /\ p = 0
  /\ fittest = {}
  /\ pc = "mutate"
  /\ result = Nothing
  /\ gens = 0
  /\ fit_of = [i \in 0..(pop_size - 1) |-> Nothing]
  /\ carried = [i \in 0..(pop_size - 1) |-> Nothing]
  /\ parents = [i \in 0..(pop_size - 1) |-> Nothing]
  /\ stop_arg = Nothing

\* A variant of the loop that does not clear the selector.
NotCleared(sel) == sel

\* fitnesses.clear() at the top of the while loop, seen from the first
\* iteration of the for loop
Cleared(sel) == IF p = 0 THEN <<>> ELSE sel

\* One iteration of the first for loop: mutate pop[p], evaluate it, offer
\* its fitness to the selector.
MutateEval ==
  /\ pc = "mutate"
  /\ \E r \in MutationsOf[pop[p]] :
       LET fitness == FitnessOf[r]
           o == CHOOSE x \in MapTryInsertMulti(Cleared(fitnesses), elites, fitness, p) : TRUE
       IN  /\ pop' = [pop EXCEPT ![p] = r]
           /\ fitnesses' = o.values
           /\ fit_of' = [i \in Indices |->
                           IF i = p THEN <<fitness>>
                           ELSE IF p = 0 THEN Nothing ELSE fit_of[i]]
  /\ carried' = [carried EXCEPT ![p] = Nothing]
  /\ parents' = IF p = 0 THEN [i \in Indices |-> Nothing] ELSE parents
  /\ IF p + 1 < pop_size
       THEN p' = p + 1 /\ pc' = "mutate" /\ gens' = gens
       ELSE p' = 0 /\ pc' = "stop" /\ gens' = gens + 1
  /\ UNCHANGED <<pop_size, elites, t_max, stop_at, t, fittest, result, stop_arg>>

\* if (stop(fitnesses.maximum_key()) || t++ == t_max) break;
\* auto const fittest = fitnesses.set_of_values();
StopTest ==
  /\ pc = "stop"
  /\ stop_arg' = <<MaximumKey(fitnesses)>>
  /\ IF Stop(stop_at, MaximumKey(fitnesses))
       THEN t' = t /\ pc' = "done" /\ UNCHANGED <<fittest, carried>>
       ELSE /\ t' = t + 1
            /\ IF t = t_max
                 THEN pc' = "done" /\ UNCHANGED <<fittest, carried>>
                 ELSE /\ pc' = "mate"
                      /\ fittest' = SetOfValues(fitnesses)
                      /\ carried' = [i \in Indices |->
                                       IF i \in SetOfValues(fitnesses)
                                         THEN <<pop[i]>> ELSE Nothing]
  /\ UNCHANGED <<pop_size, elites, t_max, stop_at, pop, fitnesses, p, result, gens,
                 fit_of, parents>>

\* the step of the loop counter of the second for loop
NextMate ==
  IF p + 1 < pop_size THEN p' = p + 1 /\ pc' = "mate" ELSE p' = 0 /\ pc' = "mutate"

\* One iteration of the second for loop, p not among the fittest: a child
\* of two picked parents replaces pop[p].
MateChild ==
  /\ pc = "mate"
  /\ p \notin fittest
  /\ \E o \in PickUniquePair(fittest, Indices) :
       /\ ~o.abort
       /\ \E child \in MapIntersectionSplitUnion(pop[o.pair[1]], pop[o.pair[2]]) :
            pop' = [pop EXCEPT ![p] = NewClassifier(child)]
       /\ parents' = [parents EXCEPT ![p] = o.pair]
  /\ NextMate
  /\ UNCHANGED <<pop_size, elites, t_max, stop_at, fitnesses, t, fittest, result, gens,
                 fit_of, carried, stop_arg>>

\* The same iteration, ended by the read past the end in pick_unique_pair.
MateAbort ==
  /\ pc = "mate"
  /\ p \notin fittest
  /\ \E o \in PickUniquePair(fittest, Indices) : o.abort
  /\ pc' = "aborted"
  /\ UNCHANGED <<pop_size, elites, t_max, stop_at, pop, fitnesses, t, p, fittest, result,
                 gens, fit_of, carried, parents, stop_arg>>

\* One iteration of the second for loop, p among the fittest.
KeepElite ==
  /\ pc = "mate"
  /\ p \in fittest
  /\ NextMate
  /\ UNCHANGED <<pop_size, elites, t_max, stop_at, pop, fitnesses, t, fittest, result,
                 gens, fit_of, carried, parents, stop_arg>>

\* return pop[fitnesses.maximum().second];
Return ==
  /\ pc = "done"
  /\ result' = <<pop[Maximum(fitnesses)[2]]>>
  /\ pc' = "returned"
  /\ UNCHANGED <<pop_size, elites, t_max, stop_at, pop, fitnesses, t, p, fittest, gens,
                 fit_of, carried, parents, stop_arg>>

(***************************************************************************)
(* SpecTrial: evolve as fuzzthat's trial calls it (fuzzthat.cc), with      *)
(* trial's initial classifier and trial's mutate.  The fitness, and so the *)
(* set of elites and the stop test, depend on the training data, which is  *)
(* left open: every set of elites and both answers of the stop test are    *)
(* followed.                                                               *)
(***************************************************************************)
\* main: pop_size is at least 8
MinPopSize == 8
\* evolve(..., pop_size, pop_size / 4, ...): the elites of the smallest population
TrialElites == MinPopSize \div 4
\* The slots followed: the elites and one of the pop_size - elites others.
TrialPopSize == TrialElites + 1
TrialIndices == 0..(TrialPopSize - 1)

\* if (c.size() < 3 || ...): the size from which mutate may modify a rule
ModifyFrom == 3
\* The most rules a classifier of the population holds: the smallest size
\* that takes mutate to its second branch.
TrialMaxRules == ModifyFrom

\* rule.first.erase(input_id)
AnteErase(a, v) == SelectSeq(a, LAMBDA pr : pr[1] # v)

\* rule.first[input_id] = s
AnteAssign(a, v, s) ==
  LET others == AnteErase(a, v)
  IN  InsertAfter(others, Cardinality({i \in DOMAIN others : others[i][1] < v}), <<v, s>>)

\* The rules the first branch of mutate can build: 1 to n assignments
\* rule.first[input_id] = set, then a category.
RandomRules(inter) == (Antecedents(inter) \ {<<>>}) \X Categories

\* A variant of the second branch that draws the set of the assigned
\* variable from 0 to num_partitions inclusive.
ModifiedRulesInclusive(inter, rule) ==
  {<<rule[1], c>> : c \in Categories}
    \cup {<<AnteErase(rule[1], rule[1][i][1]), rule[2]>> : i \in DOMAIN rule[1]}
    \cup UNION {{<<AnteAssign(rule[1], v, x), rule[2]>> : x \in 0..NumPartitions(inter, v)} :
                  v \in 0..(NumInput(inter) - 1)}

\* The rules the second branch of mutate can make of a rule that is not a
\* seed rule: a new category, or one input variable erased or assigned.
ModifiedRules(inter, rule) ==
  {<<rule[1], c>> : c \in Categories}
    \cup {<<AnteErase(rule[1], rule[1][i][1]), rule[2]>> : i \in DOMAIN rule[1]}
    \cup UNION {{<<AnteAssign(rule[1], v, x), rule[2]>> : x \in SetIds(inter, v)} :
                  v \in 0..(NumInput(inter) - 1)}

\* A variant of trial's mutate that treats a popped seed rule as any rule.
FuzzMutateUnprotected(rules) ==
  {[rules |-> AddRulePair(rules, rule).rules,
    did |-> IF rule[1] \in {Rule0[1], Rule1[1]} THEN "add_on_seed" ELSE "add"] :
     rule \in RandomRules(Interpretation)}
  \cup
  (IF Len(rules) < ModifyFrom THEN {}
   ELSE UNION {
     {[rules |-> o.rules, did |-> "pop_other"]}
       \cup {[rules |-> AddRulePair(o.rules, rule).rules, did |-> "pop_other"] :
               rule \in ModifiedRules(Interpretation, o.rule)} :
     o \in PopRandomRule(rules)})

\* mutate(c, rng) of trial: the outcomes of one call, the rules left in c and
\* what the call did.  prob_rule lies strictly between 0.2 and 0.6, so from
\* ModifyFrom rules on both branches can be taken, and a popped rule can be
\* modified or left out.
FuzzMutate(rules) ==
  {[rules |-> AddRulePair(rules, rule).rules,
    did |-> IF rule[1] \in {Rule0[1], Rule1[1]} THEN "add_on_seed" ELSE "add"] :
     rule \in RandomRules(Interpretation)}
  \cup
  (IF Len(rules) < ModifyFrom THEN {}
   ELSE UNION {
     IF o.rule = Rule0 \/ o.rule = Rule1
       THEN {[rules |-> AddRulePair(o.rules, o.rule).rules, did |-> "pop_seed"]}
       ELSE {[rules |-> o.rules, did |-> "pop_other"]}
              \cup {[rules |-> AddRulePair(o.rules, rule).rules, did |-> "pop_other"] :
                      rule \in ModifiedRules(Interpretation, o.rule)} :
     o \in PopRandomRule(rules)})

\* A variant of the constructor that gives the classifier an interpretation
\* object of its own, a copy of the one pointed to.
ConstructWithCopy(mem, slot, ptr) ==
  [mem EXCEPT !.objects = Append(@, @[ptr]), !.m_i[slot] = Len(mem.objects) + 1]

\* fuzzy_classifier(i, rules) : m_i(i), for the classifier stored in pop[slot]
ConstructWith(mem, slot, ptr) == [mem EXCEPT !.m_i[slot] = ptr]

\* make_interpretation's object, initial_rule pointing to it, and in evolve
\* inter = initial.get_interpretation_ptr() and pop_size copies of initial
InitialMemory ==
  LET made == <<Interpretation>>
      initial == Len(made)
  IN  [objects |-> made, inter |-> initial, m_i |-> [i \in TrialIndices |-> initial]]

\* auto pop = vector<self_type>(pop_size, initial); t = 0; the first p loop
TrialInit ==
  /\ tr_mem = InitialMemory
  /\ tr_pop = [i \in TrialIndices |-> InitialRule]
  /\ tr_pc = "mutate" /\ tr_p = 0 /\ tr_m = 0
  /\ tr_fittest = {} /\ tr_last = "none" /\ tr_child = {}

\* mut(pop[p], rng), one pass of the loop over m < num_mutations
TrialMutate ==
  /\ tr_pc = "mutate"
  /\ tr_m < MaxMutations
  /\ \E o \in FuzzMutate(tr_pop[tr_p]) :
       /\ Len(o.rules) <= TrialMaxRules
       /\ tr_pop' = [tr_pop EXCEPT ![tr_p] = o.rules]
       /\ tr_last' = o.did
  /\ tr_m' = tr_m + 1
  /\ UNCHANGED <<tr_pc, tr_p, tr_fittest, tr_child, tr_mem>>

\* the end of the mutation loop of pop[p]: fit, fitnesses.try_insert, ++p
TrialEvaluate ==
  /\ tr_pc = "mutate"
  /\ tr_p' = IF tr_p + 1 < TrialPopSize THEN tr_p + 1 ELSE 0
  /\ tr_pc' = IF tr_p + 1 < TrialPopSize THEN "mutate" ELSE "stop"
  /\ tr_m' = 0
  /\ tr_last' = "evaluate"
  /\ UNCHANGED <<tr_pop, tr_fittest, tr_child, tr_mem>>

\* if (stop(fitnesses.maximum_key()) || t++ == t_max) break;
TrialBreak ==
  /\ tr_pc = "stop"
  /\ tr_pc' = "returned"
  /\ tr_last' = "break"
  /\ UNCHANGED <<tr_pop, tr_p, tr_m, tr_fittest, tr_child, tr_mem>>

\* auto const fittest = fitnesses.set_of_values(): the slots of the
\* TrialElites highest fitnesses
TrialFittest ==
  /\ tr_pc = "stop"
  /\ tr_fittest' \in {f \in SUBSET TrialIndices : Cardinality(f) = TrialElites}
  /\ tr_pc' = "mate"
  /\ tr_child' = {}
  /\ tr_last' = "fittest"
  /\ UNCHANGED <<tr_pop, tr_p, tr_m, tr_mem>>

\* the end of one pass of the reproduction loop: ++p
TrialNextMate ==
  /\ tr_p' = IF tr_p + 1 < TrialPopSize THEN tr_p + 1 ELSE 0
  /\ tr_pc' = IF tr_p + 1 < TrialPopSize THEN "mate" ELSE "mutate"
  /\ UNCHANGED <<tr_m, tr_fittest>>

\* pop[p] = self_type{inter, map_intersection_split_union(...)} for a slot
\* that is not an elite
TrialMate ==
  /\ tr_pc = "mate"
  /\ tr_p \notin tr_fittest
  /\ \E o \in PickUniquePair(tr_fittest, TrialIndices) :
       /\ ~o.abort
       /\ \E m \in MapIntersectionSplitUnion(tr_pop[o.pair[1]], tr_pop[o.pair[2]]) :
            /\ Len(m) <= TrialMaxRules
            /\ tr_pop' = [tr_pop EXCEPT ![tr_p] = NewClassifier(m)]
  /\ tr_mem' = ConstructWith(tr_mem, tr_p, tr_mem.inter)
  /\ tr_child' = tr_child \cup {tr_p}
  /\ tr_last' = "mate"
  /\ TrialNextMate

\* "Elite, do not touch!"
TrialKeepElite ==
  /\ tr_pc = "mate"
  /\ tr_p \in tr_fittest
  /\ tr_last' = "keep"
  /\ TrialNextMate
  /\ UNCHANGED <<tr_pop, tr_child, tr_mem>>

(***************************************************************************)
(* SpecParallel: one call of fuzzthat's parallel_trials (fuzzthat.cc): the *)
(* coordinator and the tasks it starts with std::async.                    *)
(***************************************************************************)
MaxTrials == 3
\* The numbers one trial draws from its generator before it returns.
MaxDraws == 2

\* std::async(f, seed) with the default policy: the task runs on a thread
\* of its own, or is deferred until get is called.
Launched == {"running", "deferred"}

\* A variant of future::get that does not wait for the task.
GetReturnsAtOnce(f) == TRUE

\* future::get returns once the task has completed; a deferred task is run
\* by the call itself.
GetReturns(f) == f = "ready" \/ f = "deferred"

\* std::mt19937_64 as a generator of eight states: the state after one draw,
\* which is also the number drawn.
NextRng(state) == (5 * state + 3) % 8

\* A variant of trial that draws from the generator of parallel_trials.
RngOfShared(i) == 0

\* The generator task i draws from: auto rng = std::mt19937_64(seed), local
\* to its call of trial (and to evolve).
RngOf(i) == i

\* One draw by task i.
DrawBy(gens_, outs_, i) ==
  LET v == NextRng(gens_[RngOf(i)])
  IN  [rngs |-> [gens_ EXCEPT ![RngOf(i)] = v],
       outs |-> [outs_ EXCEPT ![i] = Append(@, v)]]

\* The rest of the call of trial in task i, run without interruption.
RECURSIVE RunTrial(_, _, _)
RunTrial(gens_, outs_, i) ==
  IF Len(outs_[i]) >= MaxDraws THEN [rngs |-> gens_, outs |-> outs_]
  ELSE LET d == DrawBy(gens_, outs_, i) IN RunTrial(d.rngs, d.outs, i)

ParInit ==
  /\ trials \in 0..MaxTrials
  /\ par_seed \in {0, 1}
  /\ futures = <<>> /\ completed = {} /\ bests = <<>> /\ tsses = <<>>
  /\ seeds = <<>>
  /\ rngs = [o \in 0..trials |-> IF o = 0 THEN par_seed ELSE 0]
  /\ outs = [i \in 1..trials |-> <<>>]
  /\ par_pc = "seed"

\* seeds.push_back(seed_gen(rng)), one pass of the loop over t < trials
DrawSeed ==
  /\ par_pc = "seed"
  /\ Len(seeds) < trials
  /\ seeds' = Append(seeds, NextRng(rngs[0]))
  /\ rngs' = [rngs EXCEPT ![0] = NextRng(@)]
  /\ UNCHANGED <<trials, futures, completed, bests, tsses, par_pc, par_seed, outs>>

\* the end of the loop that draws the seeds
DrawSeedEnd ==
  /\ par_pc = "seed"
  /\ Len(seeds) = trials
  /\ par_pc' = "dispatch"
  /\ UNCHANGED <<trials, futures, completed, bests, tsses, par_seed, seeds, rngs, outs>>

\* futures.push_back(std::async(..., seeds[t])), one pass of the loop over
\* t < trials; the task's generator is seeded with its argument
Dispatch ==
  /\ par_pc = "dispatch"
  /\ Len(futures) < trials
  /\ \E f \in Launched : futures' = Append(futures, f)
  /\ rngs' = [rngs EXCEPT ![Len(futures) + 1] = seeds[Len(futures) + 1]]
  /\ UNCHANGED <<trials, completed, bests, tsses, par_pc, par_seed, seeds, outs>>

\* the end of the dispatch loop
DispatchEnd ==
  /\ par_pc = "dispatch"
  /\ Len(futures) = trials
  /\ par_pc' = "join"
  /\ UNCHANGED <<trials, futures, completed, bests, tsses, par_seed, seeds, rngs, outs>>

\* one draw of the trial of task i, on its thread
TaskStep(i) ==
  /\ i \in DOMAIN futures
  /\ futures[i] = "running"
  /\ Len(outs[i]) < MaxDraws
  /\ rngs' = DrawBy(rngs, outs, i).rngs
  /\ outs' = DrawBy(rngs, outs, i).outs
  /\ UNCHANGED <<trials, futures, completed, bests, tsses, par_pc, par_seed, seeds>>

\* the call of trial in task i returns on its thread
TaskReturns(i) ==
  /\ i \in DOMAIN futures
  /\ futures[i] = "running"
  /\ Len(outs[i]) = MaxDraws
  /\ futures' = [futures EXCEPT ![i] = "ready"]
  /\ completed' = completed \cup {i}
  /\ UNCHANGED <<trials, bests, tsses, par_pc, par_seed, seeds, rngs, outs>>

\* bests.push_back(f.get()), one pass of the loop over futures
Join ==
  /\ par_pc = "join"
  /\ Len(bests) < Len(futures)
  /\ LET i == Len(bests) + 1 IN
       /\ GetReturns(futures[i])
       /\ completed' = IF futures[i] = "deferred" THEN completed \cup {i} ELSE completed
       /\ rngs' = IF futures[i] = "deferred" THEN RunTrial(rngs, outs, i).rngs ELSE rngs
       /\ outs' = IF futures[i] = "deferred" THEN RunTrial(rngs, outs, i).outs ELSE outs
       /\ futures' = [futures EXCEPT ![i] = "retrieved"]
       /\ bests' = Append(bests, i)
  /\ UNCHANGED <<trials, tsses, par_pc, par_seed, seeds>>

\* the end of the loop over futures
JoinEnd ==
  /\ par_pc = "join"
  /\ Len(bests) = Len(futures)
  /\ par_pc' = "collect"
  /\ UNCHANGED <<trials, futures, completed, bests, tsses, par_seed, seeds, rngs, outs>>

\* tsses.push_back(b.evaluate_all(testing).tss(1)), with complexities and
\* nrules, one pass of the loop over bests
Collect ==
  /\ par_pc = "collect"
  /\ Len(tsses) < Len(bests)
  /\ tsses' = Append(tsses, bests[Len(tsses) + 1])
  /\ UNCHANGED <<trials, futures, completed, bests, par_pc, par_seed, seeds, rngs, outs>>

\* the end of the loop over bests: the means are taken
CollectEnd ==
  /\ par_pc = "collect"
  /\ Len(tsses) = Len(bests)
  /\ par_pc' = "report"
  /\ UNCHANGED <<trials, futures, completed, bests, tsses, par_seed, seeds, rngs, outs>>

\* the report is written and closed
Report ==
  /\ par_pc = "report"
  /\ par_pc' = "done"
  /\ UNCHANGED <<trials, futures, completed, bests, tsses, par_seed, seeds, rngs, outs>>

(***************************************************************************)
(* The operators of the three fuzzy logics on a floating-point type F      *)
(* (truth.hh).  F is a binary floating-point format of FloatDigits         *)
(* significant bits whose values are multiples of 2^-FloatMinExp; a value  *)
(* is held as its multiple.  Every arithmetic operation rounds its exact   *)
(* result to the nearest value of F, ties to even.                         *)
(***************************************************************************)
FloatDigits == 2
FloatMinExp == 3

\* F(1)
FloatOne == 2 ^ FloatMinExp

\* The spacing of the values of F around n / d.
RECURSIVE FloatUlp(_, _, _)
FloatUlp(n, d, u) ==
  IF n < (2 ^ FloatDigits) * u * d THEN u ELSE FloatUlp(n, d, 2 * u)

\* The value of F nearest to n / d (n >= 0, d > 0), ties to even.
FloatRound(n, d) ==
  LET w == d * FloatUlp(n, d, 1)
      f == n \div w
      r == n % w
  IN  (IF 2 * r > w \/ (2 * r = w /\ f % 2 = 1) THEN f + 1 ELSE f) * (w \div d)

\* The values of F in [0, 1].
Floats == {x \in 0..FloatOne : FloatRound(x, 1) = x}

\* x + y, x - y, x * y, x / y and std::abs on F
FloatAdd(x, y) == FloatRound(x + y, 1)
FloatSub(x, y) == IF x >= y THEN FloatRound(x - y, 1) ELSE 0 - FloatRound(y - x, 1)
FloatMul(x, y) == FloatRound(x * y, FloatOne)
FloatDiv(x, y) == FloatRound(x * FloatOne, y)
FloatAbs(x) == IF x < 0 THEN 0 - x ELSE x

TruthOps == {"not", "and", "weak_and", "or", "weak_or", "implication", "equivalence"}

\* operator!, &&, &, ||, |, implication and equivalence of lukasiewicz<F>
LukasiewiczOp(op, a, b) ==
  CASE op = "not"         -> FloatSub(FloatOne, a)
    [] op = "and"         -> Max(0, FloatSub(FloatAdd(a, b), FloatOne))
    [] op = "weak_and"    -> Min(a, b)
    [] op = "or"          -> Min(FloatOne, FloatAdd(a, b))
    [] op = "weak_or"     -> Max(a, b)
    [] op = "implication" -> Min(FloatOne, FloatAdd(FloatSub(FloatOne, a), b))
    [] op = "equivalence" -> FloatSub(FloatOne, FloatAbs(FloatSub(a, b)))

\* operator!, &&, &, ||, |, implication and equivalence of godel<F>
GodelOp(op, a, b) ==
  CASE op = "not"         -> IF a = 0 THEN FloatOne ELSE 0
    [] op = "and"         -> Min(a, b)
    [] op = "weak_and"    -> Min(a, b)
    [] op = "or"          -> Max(a, b)
    [] op = "weak_or"     -> Max(a, b)
    [] op = "implication" -> IF a > b THEN b ELSE FloatOne
    [] op = "equivalence" -> Min(IF a > b THEN b ELSE FloatOne,
                                 IF b > a THEN a ELSE FloatOne)

\* A variant of the product operators whose implication divides without
\* the test lhs > rhs; a division by zero gives a value above every value
\* of [0, 1].
ProductOpUnguarded(op, a, b) ==
  CASE op = "not"         -> IF a = 0 THEN FloatOne ELSE 0
    [] op = "and"         -> FloatMul(a, b)
    [] op = "weak_and"    -> Min(a, b)
    [] op = "or"          -> FloatSub(FloatAdd(a, b), FloatMul(a, b))
    [] op = "weak_or"     -> Max(a, b)
    [] op = "implication" -> IF a = 0 THEN 2 * FloatOne ELSE FloatDiv(b, a)
    [] op = "equivalence" -> FloatMul(IF a > b THEN FloatDiv(b, a) ELSE FloatOne,
                                      IF b > a THEN FloatDiv(a, b) ELSE FloatOne)

\* operator!, &&, &, ||, |, implication and equivalence of product<F>
ProductOp(op, a, b) ==
  CASE op = "not"         -> IF a = 0 THEN FloatOne ELSE 0
    [] op = "and"         -> FloatMul(a, b)
    [] op = "weak_and"    -> Min(a, b)
    [] op = "or"          -> FloatSub(FloatAdd(a, b), FloatMul(a, b))
    [] op = "weak_or"     -> Max(a, b)
    [] op = "implication" -> IF a > b THEN FloatDiv(b, a) ELSE FloatOne
    [] op = "equivalence" -> FloatMul(IF a > b THEN FloatDiv(b, a) ELSE FloatOne,
                                      IF b > a THEN FloatDiv(a, b) ELSE FloatOne)

TruthOp(logic, op, a, b) ==
  CASE logic = "lukasiewicz" -> LukasiewiczOp(op, a, b)
    [] logic = "godel"       -> GodelOp(op, a, b)
    [] logic = "product"     -> ProductOp(op, a, b)

(***************************************************************************)
(* SpecTruth: one operator of one logic applied to operands of [0, 1],     *)
(* and operator! applied to the result of operator!.                       *)
(***************************************************************************)
TruthInit ==
  /\ fn_args \in [fn : {"truth"}, logic : Logics, op : TruthOps, a : Floats, b : Floats]
  /\ fn_result = Nothing

\* op(a, b), or op(a) for operator!
DoTruthOp ==
  /\ fn_args.fn = "truth" /\ fn_result = Nothing
  /\ fn_result' = <<TruthOp(fn_args.logic, fn_args.op, fn_args.a, fn_args.b)>>
  /\ fn_args' = fn_args

\* !(!a)
DoNegateAgain ==
  /\ fn_args.fn = "truth" /\ fn_args.op = "not" /\ Len(fn_result) = 1
  /\ fn_result' = Append(fn_result, TruthOp(fn_args.logic, "not", fn_result[1], fn_args.b))
  /\ fn_args' = fn_args


(***************************************************************************)
(* set_union and set_difference (set.hh): an ordered set is the sequence   *)
(* of its iteration, an unordered set is a set.                            *)
(***************************************************************************)
\* A merge that leaves out the elements of xs below the current element of ys.
RECURSIVE SetUnionFromLossy(_, _, _, _, _)
SetUnionFromLossy(xs, ys, i, j, u) ==
  IF i <= Len(xs) /\ j <= Len(ys) THEN
    IF ~(xs[i] < ys[j]) /\ ~(ys[j] < xs[i])
      THEN SetUnionFromLossy(xs, ys, i + 1, j + 1, Append(u, xs[i]))
    ELSE IF xs[i] < ys[j] THEN SetUnionFromLossy(xs, ys, i + 1, j, u)
    ELSE SetUnionFromLossy(xs, ys, i, j + 1, Append(u, ys[j]))
  ELSE IF i <= Len(xs) THEN SetUnionFromLossy(xs, ys, i + 1, j, Append(u, xs[i]))
  ELSE IF j <= Len(ys) THEN SetUnionFromLossy(xs, ys, i, j + 1, Append(u, ys[j]))
  ELSE u

\* the loops of the ordered set_union, from the iterators xs_it and ys_it
RECURSIVE SetUnionFrom(_, _, _, _, _)
SetUnionFrom(xs, ys, i, j, u) ==
  IF i <= Len(xs) /\ j <= Len(ys) THEN
    IF ~(xs[i] < ys[j]) /\ ~(ys[j] < xs[i])
      THEN SetUnionFrom(xs, ys, i + 1, j + 1, Append(u, xs[i]))
    ELSE IF xs[i] < ys[j] THEN SetUnionFrom(xs, ys, i + 1, j, Append(u, xs[i]))
    ELSE SetUnionFrom(xs, ys, i, j + 1, Append(u, ys[j]))
  ELSE IF i <= Len(xs) THEN SetUnionFrom(xs, ys, i + 1, j, Append(u, xs[i]))
  ELSE IF j <= Len(ys) THEN SetUnionFrom(xs, ys, i, j + 1, Append(u, ys[j]))
  ELSE u

\* set_union on ordered sets
SetUnionOrdered(xs, ys) ==
  IF xs = <<>> THEN ys
  ELSE IF ys = <<>> THEN xs
  ELSE SetUnionFrom(xs, ys, 1, 1, <<>>)

\* set_union on unordered sets: u = xs; u.insert(ys.begin(), ys.end()), on
\* the larger set first
SetUnionUnordered(xs, ys) ==
  IF Cardinality(xs) < Cardinality(ys) THEN ys \cup xs ELSE xs \cup ys

\* the loops of the ordered set_difference, from the iterators xs_it and ys_it
RECURSIVE SetDifferenceFrom(_, _, _, _, _)
SetDifferenceFrom(xs, ys, i, j, diff) ==
  IF i <= Len(xs) /\ j <= Len(ys) THEN
    LET x_lt_y == xs[i] < ys[j]
        y_lt_x == ys[j] < xs[i]
    IN  IF x_lt_y /\ ~y_lt_x THEN SetDifferenceFrom(xs, ys, i + 1, j, Append(diff, xs[i]))
        ELSE IF ~x_lt_y
          THEN SetDifferenceFrom(xs, ys, IF ~y_lt_x THEN i + 1 ELSE i, j + 1, diff)
        ELSE diff
  ELSE IF i <= Len(xs) THEN SetDifferenceFrom(xs, ys, i + 1, j, Append(diff, xs[i]))
  ELSE diff

\* set_difference on ordered sets
SetDifferenceOrdered(xs, ys) == SetDifferenceFrom(xs, ys, 1, 1, <<>>)

\* set_difference on unordered sets: diff = xs; diff.erase(y) for y of ys
SetDifferenceUnordered(xs, ys) == xs \ ys

\* The container of a set of integers, and the set of a container.
AsContainer(ordered, S) == IF ordered THEN SortedSeq(S) ELSE S
Elements(ordered, c) == IF ordered THEN {c[i] : i \in DOMAIN c} ELSE c

SetUnion(ordered, xs, ys) ==
  IF ordered THEN SetUnionOrdered(xs, ys) ELSE SetUnionUnordered(xs, ys)
SetDifference(ordered, xs, ys) ==
  IF ordered THEN SetDifferenceOrdered(xs, ys) ELSE SetDifferenceUnordered(xs, ys)

(***************************************************************************)
(* SpecSets: set_union(A, B), then set_difference of the union and B and   *)
(* set_difference(A, B), on ordered and on unordered sets.                 *)
(***************************************************************************)
SetsInit ==
  /\ \E ordered \in BOOLEAN, A \in SUBSET Keys, B \in SUBSET Keys :
       fn_args = [fn |-> "sets", ordered |-> ordered,
                  xs |-> AsContainer(ordered, A), ys |-> AsContainer(ordered, B)]
  /\ fn_result = Nothing

\* u = set_union(A, B)
DoSetUnion ==
  /\ fn_args.fn = "sets" /\ fn_result = Nothing
  /\ fn_result' = <<SetUnion(fn_args.ordered, fn_args.xs, fn_args.ys)>>
  /\ fn_args' = fn_args

\* set_difference(u, B) and set_difference(A, B)
DoSetDifference ==
  /\ fn_args.fn = "sets" /\ Len(fn_result) = 1
  /\ fn_result' = <<fn_result[1],
                    SetDifference(fn_args.ordered, fn_result[1], fn_args.ys),
                    SetDifference(fn_args.ordered, fn_args.xs, fn_args.ys)>>
  /\ fn_args' = fn_args

(***************************************************************************)
(* make_triangles of fuzzy_partition.hh.  A membership function is kept as *)
(* its kind and its breakpoints; a breakpoint begin + k * step, with       *)
(* step = (end - begin) / (n - 1), is kept as the integer                  *)
(* begin * (n - 1) + k * (end - begin), its value times n - 1.             *)
(***************************************************************************)
\* The width of unsigned int, the type of the loop counter i (auto i = 0u);
\* n is a size_t, which is wider.
CounterBits == 2
\* The largest begin offered.
MaxBegin == 2
\* The largest n offered: beyond the range of the loop counter.
MaxN == 2 ^ CounterBits + 4
\* The number of functions the vector can hold before push_back throws
\* std::bad_alloc: room for every n the loop counter can count to.
MaxAlloc == 3 * 2 ^ CounterBits

\* begin + k * step, times n - 1
Breakpoint(n, begin, end, k) == begin * (n - 1) + k * (end - begin)

make_slope(begin, end, before, after) ==
  [kind |-> "slope", begin |-> begin, end |-> end, before |-> before, after |-> after]

make_triangle(begin, apex, end) ==
  [kind |-> "triangle", begin |-> begin, apex |-> apex, end |-> end]

\* for (auto i = 0u; i < n - 2; ++i) triangles.push_back(make_triangle(...));
\* then the last slope is pushed and the vector returned.  ++i wraps at the
\* width of unsigned int; a push_back that cannot allocate throws out of a
\* noexcept function, which calls std::terminate.
RECURSIVE TrianglesLoop(_, _, _, _, _)
TrianglesLoop(n, begin, end, i, triangles) ==
  IF Len(triangles) = MaxAlloc
  THEN [returned |-> FALSE, triangles |-> triangles]
  ELSE IF i < n - 2
  THEN TrianglesLoop(n, begin, end, (i + 1) % (2 ^ CounterBits),
         Append(triangles, make_triangle(Breakpoint(n, begin, end, i),
                                        Breakpoint(n, begin, end, i + 1),
                                        Breakpoint(n, begin, end, i + 2))))
  ELSE [returned |-> TRUE,
        triangles |-> Append(triangles,
                        make_slope(Breakpoint(n, begin, end, n - 2),
                                  Breakpoint(n, begin, end, n - 1), "floor", "ceil"))]

make_triangles(n, begin, end) ==
  IF n < 2 THEN [returned |-> TRUE, triangles |-> <<>>]
  ELSE TrianglesLoop(n, begin, end, 0,
         <<make_slope(Breakpoint(n, begin, end, 0), Breakpoint(n, begin, end, 1),
                     "ceil", "floor")>>)

TrianglesInit ==
  /\ \E n \in 0..MaxN, begin \in 0..MaxBegin, length \in 1..2 :
       fn_args = [fn |-> "make_triangles", n |-> n, begin |-> begin,
                  end |-> begin + length]
  /\ fn_result = Nothing

\* make_triangles(n, begin, end, floor, ceil)
DoMakeTriangles ==
  /\ fn_args.fn = "make_triangles" /\ fn_result = Nothing
  /\ fn_result' = <<make_triangles(fn_args.n, fn_args.begin, fn_args.end)>>
  /\ fn_args' = fn_args

(***************************************************************************)
(* The specifications.                                                     *)
(***************************************************************************)
TopNIdle ==
  /\ kind = "multimap" /\ m_max_size = 0 /\ m_values = <<>> /\ crashed = FALSE
  /\ offered = <<>> /\ last = NoCall

RulesIdle == m_rules = <<>> /\ call = NoMember

EvolveIdle ==
  /\ pop_size = 0 /\ elites = 0 /\ t_max = 0 /\ stop_at = 0 /\ pop = <<>>
  /\ fitnesses = <<>> /\ t = 0 /\ p = 0 /\ fittest = {} /\ pc = "idle"
  /\ result = Nothing /\ gens = 0 /\ fit_of = <<>> /\ carried = <<>>
  /\ parents = <<>> /\ stop_arg = Nothing

ConfIdle == cmat = NewConfusion /\ cmat_call = NoCount
FnIdle == fn_args = [fn |-> "none"] /\ fn_result = Nothing

TrialIdle ==
  /\ tr_pop = <<>> /\ tr_pc = "idle" /\ tr_p = 0 /\ tr_m = 0 /\ tr_fittest = {}
  /\ tr_last = "none" /\ tr_child = {} /\ tr_mem = Nothing

ParIdle ==
  /\ trials = 0 /\ futures = <<>> /\ completed = {} /\ bests = <<>> /\ tsses = <<>>
  /\ par_pc = "idle" /\ par_seed = 0 /\ seeds = <<>> /\ rngs = <<>> /\ outs = <<>>

\* Every part of the program but the one named is at rest.
IdleExcept(part) ==
  /\ IF part = "topn" THEN TRUE ELSE TopNIdle
  /\ IF part = "rules" THEN TRUE ELSE RulesIdle
  /\ IF part = "evolve" THEN TRUE ELSE EvolveIdle
  /\ IF part = "confusion" THEN TRUE ELSE ConfIdle
  /\ IF part = "function" THEN TRUE ELSE FnIdle
  /\ IF part = "trial" THEN TRUE ELSE TrialIdle
  /\ IF part = "parallel" THEN TRUE ELSE ParIdle

InitTopN == TopNInit /\ IdleExcept("topn")
NextTopN ==
  \/ \E k \in Keys, m \in Vals : TryInsert(k, m) /\ UNCHANGED exceptTopN
  \/ Clear /\ UNCHANGED exceptTopN
SpecTopN == InitTopN /\ [][NextTopN]_vars

InitRules == RulesInit /\ IdleExcept("rules")
NextRules ==
  \/ \E a \in AllAntecedents, c \in Categories :
       DoAddRule(a, c) /\ UNCHANGED exceptRules
  \/ \E a \in AllAntecedents, c \in Categories :
       DoAddRulePair(a, c) /\ UNCHANGED exceptRules
  \/ \E a \in AllAntecedents : DoRmvRule(a) /\ UNCHANGED exceptRules
  \/ DoGetRandomRule /\ UNCHANGED exceptRules
  \/ DoPopRandomRule /\ UNCHANGED exceptRules
  \/ \E logic \in Logics, row \in Rows(Interpretation) :
       DoEvaluate(logic, row) /\ UNCHANGED exceptRules
SpecRules == InitRules /\ [][NextRules]_vars

InitEvolve == EvolveInit /\ IdleExcept("evolve")
NextEvolve ==
  \/ MutateEval /\ UNCHANGED exceptEvolve
  \/ StopTest /\ UNCHANGED exceptEvolve
  \/ MateChild /\ UNCHANGED exceptEvolve
  \/ MateAbort /\ UNCHANGED exceptEvolve
  \/ KeepElite /\ UNCHANGED exceptEvolve
  \/ Return /\ UNCHANGED exceptEvolve
SpecEvolve == InitEvolve /\ [][NextEvolve]_vars

(***************************************************************************)
(* SpecEvaluateAll: one call of evaluate_all, on any classifier over       *)
(* EvolveInterpretation and any data matrix of at most MaxRows rows whose  *)
(* observed categories are categories of the interpretation.               *)
(***************************************************************************)
\* data_matrix<input_type, id_type>: the sequences of (row, category) pairs
DataRows(inter) == Rows(inter) \X Categories
DataMatrices(inter) ==
  UNION {[1..n -> DataRows(inter)] : n \in 0..MaxRows}

EvaluateAllInit ==
  /\ fn_args \in [fn : {"evaluate_all"}, logic : Logics,
                   rules : AllRuleMaps(EvolveInterpretation),
                   dm : DataMatrices(EvolveInterpretation)]
  /\ fn_result = Nothing

\* c.evaluate_all(dm)
DoEvaluateAll ==
  /\ fn_args.fn = "evaluate_all"
  /\ fn_result = Nothing
  /\ fn_result' = <<EvaluateAll(fn_args.logic, EvolveInterpretation, fn_args.rules,
                                fn_args.dm)>>
  /\ fn_args' = fn_args

InitEvaluateAll == EvaluateAllInit /\ IdleExcept("function")
NextEvaluateAll == DoEvaluateAll /\ UNCHANGED exceptFn
SpecEvaluateAll == InitEvaluateAll /\ [][NextEvaluateAll]_vars

\* The rule maps of at most MaxRules rules over the interpretation: the
\* parents map_intersection_split_union is called with.
ParentRuleMaps == {r \in AllRuleMaps(Interpretation) : Len(r) <= MaxRules}

SplitUnionInit ==
  /\ fn_args \in [fn : {"split_union"}, xs : ParentRuleMaps, ys : ParentRuleMaps]
  /\ fn_result = Nothing

\* m = map_intersection_split_union(xs, ys, rng)
DoSplitUnion ==
  /\ fn_args.fn = "split_union" /\ fn_result = Nothing
  /\ \E m \in MapIntersectionSplitUnion(fn_args.xs, fn_args.ys) : fn_result' = <<m>>
  /\ fn_args' = fn_args

InitSplitUnion == SplitUnionInit /\ IdleExcept("function")
NextSplitUnion == DoSplitUnion /\ UNCHANGED exceptFn
SpecSplitUnion == InitSplitUnion /\ [][NextSplitUnion]_vars

InitTrial == TrialInit /\ IdleExcept("trial")
NextTrial ==
  \/ TrialMutate /\ UNCHANGED exceptTrial
  \/ TrialEvaluate /\ UNCHANGED exceptTrial
  \/ TrialBreak /\ UNCHANGED exceptTrial
  \/ TrialFittest /\ UNCHANGED exceptTrial
  \/ TrialMate /\ UNCHANGED exceptTrial
  \/ TrialKeepElite /\ UNCHANGED exceptTrial
SpecTrial == InitTrial /\ [][NextTrial]_vars

InitParallel == ParInit /\ IdleExcept("parallel")
NextParallel ==
  \/ DrawSeed /\ UNCHANGED exceptPar
  \/ DrawSeedEnd /\ UNCHANGED exceptPar
  \/ Dispatch /\ UNCHANGED exceptPar
  \/ DispatchEnd /\ UNCHANGED exceptPar
  \/ \E i \in 1..MaxTrials : TaskStep(i) /\ UNCHANGED exceptPar
  \/ \E i \in 1..MaxTrials : TaskReturns(i) /\ UNCHANGED exceptPar
  \/ Join /\ UNCHANGED exceptPar
  \/ JoinEnd /\ UNCHANGED exceptPar
  \/ Collect /\ UNCHANGED exceptPar
  \/ CollectEnd /\ UNCHANGED exceptPar
  \/ Report /\ UNCHANGED exceptPar
SpecParallel == InitParallel /\ [][NextParallel]_vars


InitTruth == TruthInit /\ IdleExcept("function")
NextTruth ==
  \/ DoTruthOp /\ UNCHANGED exceptFn
  \/ DoNegateAgain /\ UNCHANGED exceptFn
SpecTruth == InitTruth /\ [][NextTruth]_vars


InitSets == SetsInit /\ IdleExcept("function")
NextSets ==
  \/ DoSetUnion /\ UNCHANGED exceptFn
  \/ DoSetDifference /\ UNCHANGED exceptFn
SpecSets == InitSets /\ [][NextSets]_vars

InitTriangles == TrianglesInit /\ IdleExcept("function")
NextTriangles == DoMakeTriangles /\ UNCHANGED exceptFn
SpecTriangles == InitTriangles /\ [][NextTriangles]_vars

InitConfusion == ConfInit /\ IdleExcept("confusion")
NextConfusion ==
  \/ \E pr \in Categories, ob \in Categories, n \in 0..MaxCount :
       DoAddCount(pr, ob, n) /\ UNCHANGED exceptConf
  \/ \E pr \in Categories, ob \in Categories, n \in 0..(MaxCount + 1) :
       DoSubCount(pr, ob, n) /\ UNCHANGED exceptConf
SpecConfusion == InitConfusion /\ [][NextConfusion]_vars


(***************************************************************************)
(* Properties of the top-N containers, checked under SpecTopN.             *)
(***************************************************************************)
\* Number of entries of seq whose key is k.
KeyCount(seq, k) == Cardinality({i \in DOMAIN seq : KeyOf(seq[i]) = k})

\* The smallest key held by a non-empty container.
MinimumKeyOf(seq) ==
  CHOOSE k \in {KeyOf(seq[i]) : i \in DOMAIN seq} :
    \A j \in DOMAIN seq : ~(KeyOf(seq[j]) < k)

\* after holds the entries of before, less its i-th entry, plus the entry e.
ReplacesEntry(before, after, i, e) ==
  \A x \in {before[j] : j \in DOMAIN before} \cup {after[j] : j \in DOMAIN after} \cup {e} :
    Count(after, x) = Count(RemoveAt(before, i), x) + (IF x = e THEN 1 ELSE 0)

\* The last call was try_insert on a top_n_multimap that was full and held
\* at least one entry.
FullMultimapCall ==
  /\ kind = "multimap"
  /\ last.op = "try_insert"
  /\ last.before # <<>>
  /\ Len(last.before) = m_max_size

\* C6: on a full top_n_multimap, try_insert(k, v) with k strictly greater
\* than the current minimum key returns true, removes exactly one entry
\* holding the previous minimum key and adds (k, v), so that size() is
\* unchanged; with k less than or equal to the current minimum key it
\* returns false and leaves the contents unchanged.
FullMultimapTryInsert ==
  FullMultimapCall =>
    IF MinimumKeyOf(last.before) < last.k
      THEN /\ last.ret
           /\ Size(m_values) = Size(last.before)
           /\ \E i \in DOMAIN last.before :
                /\ KeyOf(last.before[i]) = MinimumKeyOf(last.before)
                /\ ReplacesEntry(last.before, m_values, i, <<last.k, last.m>>)
      ELSE /\ ~last.ret
           /\ m_values = last.before

\* A full multimap holding two distinct keys took a key above its minimum.
FullMultimapTryInsertWitness ==
  /\ FullMultimapCall
  /\ last.ret
  /\ Len(last.before) >= 2
  /\ KeyOf(last.before[1]) < KeyOf(last.before[Len(last.before)])
  /\ MinimumKeyOf(last.before) < last.k

\* C7: for every top-N container created with any capacity N,
\* size() <= max_size() == N holds after every operation of any sequence of
\* try_insert and clear calls (and every such call completes).
SizeWithinMaxSize ==
  /\ ~crashed
  /\ Size(m_values) <= m_max_size

\* Number of times k occurs among the n largest keys offered.
OfferedCount(n, k) == Cardinality({i \in 1..n : offered[i] = k})

\* C8: after any sequence of m try_insert calls on an initially empty
\* top_n_multimap of capacity N, the multiset of keys held equals the
\* multiset of the min(N, m) largest keys among the m keys offered.
MultimapHoldsLargestKeys ==
  kind = "multimap" =>
    /\ ~crashed
    /\ \A k \in Keys :
         KeyCount(m_values, k) = OfferedCount(Min(m_max_size, Len(offered)), k)


(***************************************************************************)
(* Properties of the classifier's member functions, checked under          *)
(* SpecRules.                                                              *)
(***************************************************************************)
\* The last call was add_rule, through either overload, with a non-empty
\* antecedent.
AddRuleCall ==
  /\ call.op \in {"add_rule", "add_rule_pair"}
  /\ call.a # <<>>

\* C4: for any classifier state and any non-empty antecedent a, after
\* add_rule is called with antecedent a and category c, through either the
\* (antecedent, category) overload or the rule-pair overload, the store maps
\* a to c, even when a was already present with a different category.
AddRuleLastWriteWins ==
  AddRuleCall => HasRule(m_rules, call.a, call.c)

(***************************************************************************)
(* The aggregated truths of evaluate in closed form.  Memberships are      *)
(* counted in units of 1 / InputDen and the results are given in units of  *)
(* 1 / TruthScale, without any rounding.                                   *)
(***************************************************************************)
\* Membership of the input in the fuzzy set of one literal <<input, set>>.
Degree(lit, row) ==
  (Membership(Interpretation, lit[1], lit[2], row[lit[1] + 1]) * InputDen) \div TruthScale

RECURSIVE SumOf(_)
SumOf(seq) == IF seq = <<>> THEN 0 ELSE seq[1] + SumOf(Tail(seq))

RECURSIVE ProductOf(_)
ProductOf(seq) == IF seq = <<>> THEN 1 ELSE seq[1] * ProductOf(Tail(seq))

\* Largest and smallest element of a sequence, none giving the default.
MaxOf(seq, default) ==
  IF seq = <<>> THEN default
  ELSE CHOOSE x \in {seq[i] : i \in DOMAIN seq} : \A j \in DOMAIN seq : seq[j] <= x

MinOf(seq, default) ==
  IF seq = <<>> THEN default
  ELSE CHOOSE x \in {seq[i] : i \in DOMAIN seq} : \A j \in DOMAIN seq : x <= seq[j]

\* Strong conjunction of the memberships of the literals of an antecedent.
Activation(logic, ante, row) ==
  LET degrees == [i \in DOMAIN ante |-> Degree(ante[i], row)]
      n == Len(ante)
  IN  CASE logic = "lukasiewicz" ->
             Max(0, SumOf(degrees) - (n - 1) * InputDen) * (TruthScale \div InputDen)
        [] logic = "godel" ->
             MinOf(degrees, InputDen) * (TruthScale \div InputDen)
        [] logic = "product" ->
             ProductOf(degrees) * (TruthScale \div (InputDen ^ n))

\* The activations of the rules of a rule map that target category c.
ActivationsFor(logic, rules, c, row) ==
  LET Targets(r) == r[2] = c
      targeting == SelectSeq(rules, Targets)
  IN  [i \in DOMAIN targeting |-> Activation(logic, targeting[i][1], row)]

\* truth is the strong disjunction of the activations acts.
IsStrongOrOf(logic, acts, truth) ==
  CASE logic = "lukasiewicz" -> truth = Min(Unit, SumOf(acts))
    [] logic = "godel"       -> truth = MaxOf(acts, Zero)
    [] logic = "product"     ->
         IF acts = <<>> THEN truth = Zero
         ELSE truth * (TruthScale ^ (Len(acts) - 1))
                = (TruthScale ^ Len(acts))
                    - ProductOf([i \in DOMAIN acts |-> Unit - acts[i]])

\* C5 as stated: evaluate computes, for each category, an aggregated truth
\* equal to the maximum (weak OR) over the rules targeting that category of
\* the rule's activation, where the activation of a rule is the strong AND
\* of the memberships of its literals and categories without rules keep
\* zero truth.
EvaluateAggregatesByMaximum ==
  call.op = "evaluate" =>
    \A c \in Categories :
      call.truths[c] = MaxOf(ActivationsFor(call.logic, m_rules, c, call.row), Zero)

\* C5 amended: evaluate computes, for each category, an aggregated truth
\* equal to the strong OR (operator|| of the truth type) over the rules
\* targeting that category of the rule's activation: the bounded sum
\* min(1, a + b) for Lukasiewicz, the maximum for Godel and the
\* probabilistic sum a + b - a * b for Product truth values.  The activation
\* of a rule is the strong AND of the memberships of its literals and
\* categories without rules keep zero truth.
EvaluateAggregatesByStrongOr ==
  call.op = "evaluate" =>
    \A c \in Categories :
      IsStrongOrOf(call.logic, ActivationsFor(call.logic, m_rules, c, call.row),
                   call.truths[c])

\* evaluate ran, with Lukasiewicz truth values, on a classifier holding a
\* rule of two literals and two rules of the same category whose
\* activations are both positive and add up to more than their maximum.
EvaluateAggregatesWitness ==
  /\ call.op = "evaluate"
  /\ call.logic = "lukasiewicz"
  /\ \E i \in DOMAIN m_rules : Len(m_rules[i][1]) = 2
  /\ \E c \in Categories :
       LET acts == ActivationsFor(call.logic, m_rules, c, call.row)
       IN  /\ Len(acts) = 2
           /\ acts[1] > Zero
           /\ acts[2] > Zero
           /\ call.truths[c] > MaxOf(acts, Zero)


(***************************************************************************)
(* Properties of evolve, checked under SpecEvolve.                         *)
(***************************************************************************)
\* C1: an individual that is in the elite set at the end of generation g
\* has, at the moment its fitness is evaluated in generation g+1, exactly
\* the rule set it had when it was evaluated in generation g: the step that
\* evaluates a carried elite leaves it with the rule set it was carried with.
ElitesEvaluatedUnmutated ==
  [][(pc = "mutate" /\ carried[p] # Nothing) => pop'[p] = carried[p][1]]_vars

\* C2: evolve never performs more than t_max generations (rounds of
\* mutating and evaluating the whole population), and it leaves the loop
\* before its t_max-th generation only when stop holds for the best fitness
\* of a generation.
GenerationsWithinTMax ==
  /\ gens <= t_max
  /\ (pc \in {"done", "returned"} /\ gens < t_max) =>
       (stop_arg # Nothing /\ Stop(stop_at, stop_arg[1]))

\* C3: for every elite count E with 0 < E < P, every child built in the
\* reproduction step has two parents whose population indices are distinct
\* and both belong to the current elite set, and parent selection never
\* reads an element outside that set.
ParentsAreDistinctElites ==
  /\ pc # "aborted"
  /\ \A i \in DOMAIN parents :
       parents[i] # Nothing =>
         /\ parents[i][1] # parents[i][2]
         /\ parents[i][1] \in fittest
         /\ parents[i][2] \in fittest

\* The slots the second for loop of the current generation has passed.
MatedSlots ==
  IF pc = "mate" THEN {i \in Indices : i < p}
  ELSE IF pc = "mutate" /\ p = 0 /\ gens > 0 THEN Indices
  ELSE {}

\* child holds rules of xs and ys only, and a rule for every antecedent
\* that xs and ys share.
IsChildOf(child, xs, ys) ==
  /\ \A i \in DOMAIN child :
       (\E j \in DOMAIN xs : xs[j] = child[i]) \/ (\E j \in DOMAIN ys : ys[j] = child[i])
  /\ \A i \in DOMAIN xs :
       HasAntecedent(ys, xs[i][1]) => HasAntecedent(child, xs[i][1])

\* C9: in the reproduction step of every non-final generation, each slot
\* whose index is in the elite set keeps its rule set unchanged, and each
\* slot whose index is not in the elite set is replaced by a child built
\* from the rule sets of two elite slots.
ReproductionKeepsElites ==
  \A i \in MatedSlots :
    IF i \in fittest
      THEN pop[i] = carried[i][1]
      ELSE /\ parents[i] # Nothing
           /\ parents[i][1] \in fittest
           /\ parents[i][2] \in fittest
           /\ IsChildOf(pop[i], pop[parents[i][1]], pop[parents[i][2]])

\* The largest fitness computed in the current generation.
BestFitness ==
  CHOOSE f \in {fit_of[i][1] : i \in Indices} : \A j \in Indices : fit_of[j][1] <= f

\* C10: the classifier returned by evolve is an individual of the final
\* generation whose fitness, as computed in that generation, is the maximum
\* over all pop_size individuals of that generation, and the value passed
\* to stop in each generation is that generation's maximum fitness.
ReturnsBestOfFinalGeneration ==
  /\ pc \in {"mate", "done", "returned"} => stop_arg = <<BestFitness>>
  /\ pc = "returned" =>
       /\ \E i \in Indices : result = <<pop[i]>> /\ fit_of[i] = <<BestFitness>>
       /\ Fitness(result[1]) = BestFitness

\* evolve returned after a second generation in which two elites of
\* different fitness were ranked and a third individual was less fit.
ReturnsBestWitness ==
  /\ pc = "returned"
  /\ gens >= 2
  /\ Len(fitnesses) = 2
  /\ KeyOf(fitnesses[1]) < KeyOf(fitnesses[2])
  /\ \E i \in Indices : fit_of[i][1] < KeyOf(fitnesses[1])


(***************************************************************************)
(* Further properties of the classifier's member functions, checked under  *)
(* SpecRules.                                                              *)
(***************************************************************************)
\* The last call was add_rule, through either overload, with an empty
\* antecedent.
AddEmptyRuleCall ==
  /\ call.op \in {"add_rule", "add_rule_pair"}
  /\ call.a = <<>>

\* C12: for any classifier state, add_rule with an empty antecedent (either
\* overload) returns false and leaves the rule set, and hence size(),
\* unchanged.
AddEmptyRuleRejected ==
  AddEmptyRuleCall =>
    /\ ~call.ret
    /\ m_rules = call.before
    /\ Len(m_rules) = Len(call.before)

\* add_rule(rule_type) was called with an empty antecedent on a classifier
\* that holds rules.
AddEmptyRuleWitness ==
  /\ AddEmptyRuleCall
  /\ call.op = "add_rule_pair"
  /\ call.before # <<>>


\* C15: after any sequence of add_rule, rmv_rule and pop_random_rule calls,
\* complexity() equals the sum over the currently stored rules of (number
\* of literals in the antecedent + 1).
ComplexityIsSumOverRules ==
  Complexity(m_rules) = SumOf([i \in DOMAIN m_rules |-> Len(m_rules[i][1]) + 1])

\* pop_random_rule left a rule of two literals in the classifier.
ComplexityWitness ==
  /\ call.op = "pop_random_rule"
  /\ \E i \in DOMAIN m_rules : Len(m_rules[i][1]) = 2

\* The last call was pop_random_rule on a classifier that held rules.
PopRuleCall ==
  /\ call.op = "pop_random_rule"
  /\ call.before # <<>>

\* C16: on a non-empty rule store, pop_random_rule returns a rule (a, c)
\* that was in the store immediately before the call; afterwards a is
\* absent from the store, size() is exactly one less, and every other rule
\* is unchanged.
PopRandomRuleRemovesReturned ==
  PopRuleCall =>
    /\ HasRule(call.before, call.a, call.c)
    /\ ~HasAntecedent(m_rules, call.a)
    /\ Len(m_rules) = Len(call.before) - 1
    /\ \A i \in DOMAIN call.before :
         call.before[i][1] # call.a =>
           HasRule(m_rules, call.before[i][1], call.before[i][2])

\* pop_random_rule took one of two rules.
PopRandomRuleWitness ==
  /\ PopRuleCall
  /\ Len(call.before) = 2
  /\ Len(m_rules) = 1

\* The last call was get_random_rule or pop_random_rule on an empty
\* classifier.
RandomRuleOfEmptyCall ==
  /\ call.op \in {"get_random_rule", "pop_random_rule"}
  /\ call.before = <<>>

\* C17: on an empty rule store, get_random_rule and pop_random_rule each
\* return a rule with an empty antecedent, do not fail, and leave the store
\* empty, however many times they are called.
RandomRuleOfEmptyIsSentinel ==
  RandomRuleOfEmptyCall =>
    /\ call.a = <<>>
    /\ m_rules = <<>>

\* get_random_rule was called on a classifier emptied by pop_random_rule or
\* rmv_rule, or never filled.
RandomRuleOfEmptyWitness ==
  /\ RandomRuleOfEmptyCall
  /\ call.op = "get_random_rule"

\* C18: evaluate returns the lowest category id among the categories whose
\* aggregated truth is maximal; in particular a classifier with no rules
\* returns category 0 for every input.
EvaluateReturnsLowestMaximal ==
  call.op = "evaluate" =>
    /\ \A c \in Categories : call.truths[c] <= call.truths[call.c]
    /\ \A c \in Categories : call.truths[c] = call.truths[call.c] => call.c <= c
    /\ m_rules = <<>> => call.c = 0

\* evaluate ran on a classifier whose two categories tie at a positive truth.
EvaluateTieWitness ==
  /\ call.op = "evaluate"
  /\ m_rules # <<>>
  /\ call.truths[0] > Zero
  /\ \A c \in Categories : call.truths[c] = call.truths[0]


(***************************************************************************)
(* Properties of the confusion matrix, checked under SpecConfusion.        *)
(***************************************************************************)
\* The cell the last call addressed.
CalledCell == <<cmat_call.predicted, cmat_call.observed>>

\* C14: after any sequence of add_count and sub_count calls on a confusion
\* matrix, every cell is >= 0 and count() equals the sum of all cells; a
\* sub_count by more than the cell currently holds sets the cell to 0 and
\* lowers the total by exactly the cell's previous value.
ConfusionCountsConsistent ==
  /\ \A cell \in Categories \X Categories : cmat.m_c[cell] >= 0
  /\ cmat.m_count = SumOver(cmat.m_c, Categories \X Categories)
  /\ (cmat_call.op = "sub_count" /\ cmat_call.before.m_c[CalledCell] < cmat_call.n) =>
       /\ cmat.m_c[CalledCell] = 0
       /\ cmat.m_count = cmat_call.before.m_count - cmat_call.before.m_c[CalledCell]
       /\ \A cell \in (Categories \X Categories) \ {CalledCell} :
            cmat.m_c[cell] = cmat_call.before.m_c[cell]

\* sub_count asked for more than a non-empty cell held, while another cell
\* held counts too.
ConfusionClampWitness ==
  /\ cmat_call.op = "sub_count"
  /\ cmat_call.before.m_c[CalledCell] > 0
  /\ cmat_call.before.m_c[CalledCell] < cmat_call.n
  /\ cmat.m_count > 0


(***************************************************************************)
(* Properties of evaluate_all, checked under SpecEvaluateAll.              *)
(***************************************************************************)
\* evaluate_all has returned.
EvaluateAllReturned == fn_args.fn = "evaluate_all" /\ fn_result # Nothing

\* The rows of the data matrix with observed category ob that evaluate
\* assigns to category pr.
RowsCounted(pr, ob) ==
  {i \in DOMAIN fn_args.dm :
     /\ fn_args.dm[i][2] = ob
     /\ Evaluate(fn_args.logic, EvolveInterpretation, fn_args.rules, fn_args.dm[i][1]) = pr}

\* C19: evaluate_all over a data source of R rows returns a confusion
\* matrix whose total count is R and in which each cell (p, o) equals the
\* number of rows with observed category o for which evaluate returns p.
EvaluateAllCountsRows ==
  EvaluateAllReturned =>
    /\ fn_result[1].m_count = Len(fn_args.dm)
    /\ \A pr \in Categories, ob \in Categories :
         fn_result[1].m_c[<<pr, ob>>] = Cardinality(RowsCounted(pr, ob))

\* evaluate_all returned a matrix with a row counted on the diagonal and a
\* row counted off it.
EvaluateAllWitness ==
  /\ EvaluateAllReturned
  /\ \E i \in Categories : fn_result[1].m_c[<<i, i>>] > 0
  /\ \E pr \in Categories, ob \in Categories : pr # ob /\ fn_result[1].m_c[<<pr, ob>>] > 0

(***************************************************************************)
(* Properties of map_intersection_split_union, checked under               *)
(* SpecSplitUnion.                                                         *)
(***************************************************************************)
SplitUnionReturned == fn_args.fn = "split_union" /\ fn_result # Nothing

\* The category a rule map gives to one of its antecedents.
CategoryAt(rules, a) == rules[Find(rules, a)][2]

\* The keys found in both parents.
SharedKeys(xs, ys) ==
  {xs[i][1] : i \in DOMAIN xs} \cap {ys[j][1] : j \in DOMAIN ys}

\* C20: the child of map_intersection_split_union holds every antecedent
\* present in both parents, with the category one of the parents gives it.
ChildKeepsSharedAntecedents ==
  SplitUnionReturned =>
    \A a \in SharedKeys(fn_args.xs, fn_args.ys) :
      /\ HasAntecedent(fn_result[1], a)
      /\ CategoryAt(fn_result[1], a) \in {CategoryAt(fn_args.xs, a), CategoryAt(fn_args.ys, a)}

\* A call whose parents disagree on a shared antecedent, whose child takes
\* the second parent's category for it and leaves out a private antecedent.
ChildKeepsSharedWitness ==
  /\ SplitUnionReturned
  /\ \E a \in SharedKeys(fn_args.xs, fn_args.ys) :
       /\ CategoryAt(fn_args.xs, a) # CategoryAt(fn_args.ys, a)
       /\ CategoryAt(fn_result[1], a) = CategoryAt(fn_args.ys, a)
  /\ \E i \in DOMAIN fn_args.xs :
       /\ ~HasAntecedent(fn_args.ys, fn_args.xs[i][1])
       /\ ~HasAntecedent(fn_result[1], fn_args.xs[i][1])

(***************************************************************************)
(* Properties of fuzzthat's trial, checked under SpecTrial.                *)
(***************************************************************************)
\* C11: every individual of the population holds both seed rules, each
\* with its original category, after every mutation step and after every
\* crossover.
SeedRulesKept ==
  \A i \in DOMAIN tr_pop :
    /\ HasRule(tr_pop[i], Rule0[1], Rule0[2])
    /\ HasRule(tr_pop[i], Rule1[1], Rule1[2])

\* mutate has just popped a seed rule from a slot rebuilt by crossover that
\* also holds a rule of its own.
SeedRulesWitness ==
  /\ tr_last = "pop_seed"
  /\ tr_p \in tr_child
  /\ Len(tr_pop[tr_p]) = ModifyFrom

(***************************************************************************)
(* Properties of fuzzthat's parallel_trials, checked under SpecParallel.   *)
(***************************************************************************)
\* The coordinator has begun to aggregate: it is in the loop over bests or
\* past it.
Aggregating == par_pc \in {"collect", "report", "done"}

\* C13: parallel_trials starts aggregating only after every dispatched task
\* has completed, and the number of results aggregated equals the number of
\* trials dispatched.
AggregatesAfterAllTasks ==
  /\ Aggregating =>
       /\ Len(futures) = trials
       /\ completed = 1..trials
       /\ Len(bests) = trials
  /\ par_pc \in {"report", "done"} =>
       /\ Len(tsses) = trials
       /\ \A i \in 1..trials : tsses[i] = i

\* The report of a run of several trials has been written from as many
\* results as trials.
AggregatesWitness ==
  /\ par_pc = "done"
  /\ trials >= 2
  /\ Len(tsses) = trials

(***************************************************************************)
(* Properties of the truth types, checked under SpecTruth.                 *)
(***************************************************************************)
\* C23: for every Lukasiewicz truth value a of [0, 1], !(!a) equals a (and
\* Godel and Product have values a for which it differs).
LukasiewiczNegationInvolutive ==
  (fn_args.fn = "truth" /\ fn_args.logic = "lukasiewicz" /\ Len(fn_result) = 2)
    => fn_result[2] = fn_args.a

\* C24: for each logic and all operands of [0, 1], the result of negation,
\* strong and weak conjunction, strong and weak disjunction, implication and
\* equivalence is a value of [0, 1]; the product implication never divides
\* by zero.
TruthOpsStayInUnitInterval ==
  (fn_args.fn = "truth" /\ fn_result # Nothing) =>
    \A i \in DOMAIN fn_result : fn_result[i] \in Floats

\* The product implication has divided: its antecedent is above its
\* consequent, which is zero or more.
TruthOpsWitness ==
  /\ fn_args.fn = "truth" /\ fn_result # Nothing
  /\ fn_args.logic = "product" /\ fn_args.op = "implication"
  /\ fn_args.a > fn_args.b
  /\ fn_result[1] > 0 /\ fn_result[1] < FloatOne

(***************************************************************************)
(* Properties of the set utilities, checked under SpecSets.                *)
(***************************************************************************)
SetDifferencesTaken == fn_args.fn = "sets" /\ Len(fn_result) = 3

\* C25: for all finite sets A and B, set_difference(set_union(A, B), B) is a
\* superset of set_difference(A, B), for the ordered and the unordered
\* implementations.
DifferenceOfUnionCoversDifference ==
  SetDifferencesTaken =>
    Elements(fn_args.ordered, fn_result[3]) \subseteq Elements(fn_args.ordered, fn_result[2])

\* Ordered sets that overlap, each with elements of its own on both sides
\* of the other's.
DifferenceOfUnionWitness ==
  /\ SetDifferencesTaken
  /\ fn_args.ordered
  /\ Elements(TRUE, fn_result[3]) # {}
  /\ Elements(TRUE, fn_args.xs) \cap Elements(TRUE, fn_args.ys) # {}
  /\ \E x \in Elements(TRUE, fn_result[3]), y \in Elements(TRUE, fn_args.ys) : x < y

(***************************************************************************)
(* Properties of tss, checked under SpecConfusion.                         *)
(***************************************************************************)
\* C30: for every confusion matrix and category c, whenever the denominator
\* (tp + fn) * (fp + tn) of tss(c) is zero its numerator tp * tn - fp * fn
\* is zero as well, so that tss(c) is 0.0 / 0.0.
TssZeroOverZero ==
  \A c \in Categories : TssDen(cmat, c) = 0 => TssNum(cmat, c) = 0

\* A matrix that holds rows, all of one observed category, some of them
\* predicted right and some wrong: the denominator of tss is zero.
TssZeroOverZeroWitness ==
  \E c \in Categories :
    /\ TssDen(cmat, c) = 0
    /\ TruePositives(cmat, c) > 0
    /\ FalseNegatives(cmat, c) > 0

(***************************************************************************)
(* Properties of the elite selector of evolve, checked under SpecEvolve.   *)
(***************************************************************************)
\* C27: at the end of the evaluation phase of every generation the elite
\* selector holds exactly `elites` entries, whose population indices are
\* pairwise distinct and whose keys are fitness values computed in that
\* same generation.
SelectorHoldsThisGeneration ==
  pc = "stop" =>
    /\ Len(fitnesses) = elites
    /\ \A i \in DOMAIN fitnesses, j \in DOMAIN fitnesses :
         i # j => fitnesses[i][2] # fitnesses[j][2]
    /\ \A i \in DOMAIN fitnesses :
         /\ fitnesses[i][2] \in Indices
         /\ fit_of[fitnesses[i][2]] = <<KeyOf(fitnesses[i])>>

\* The evaluation phase of a later generation has ended with two elites
\* that are not the two elites of the generation before.
SelectorWitness ==
  /\ pc = "stop"
  /\ gens >= 2
  /\ elites = 2
  /\ SetOfValues(fitnesses) # fittest

\* C28: with a deterministic fitness function the best fitness of
\* generation g+1 is never lower than the best fitness of generation g (the
\* value last passed to stop), so the fitness of the returned classifier is
\* at least the best fitness of every earlier generation.
BestFitnessNeverDecreases ==
  (pc = "stop" /\ stop_arg # Nothing) => MaximumKey(fitnesses) >= stop_arg[1]

\* A rule whose literals name an input variable of the interpretation and
\* a fuzzy set of that variable, and whose category is a category of it.
RuleWithinInterpretation(inter, rule) ==
  /\ \A i \in DOMAIN rule[1] :
       /\ rule[1][i][1] >= 0 /\ rule[1][i][1] < NumInput(inter)
       /\ rule[1][i][2] >= 0 /\ rule[1][i][2] < NumPartitions(inter, rule[1][i][1])
  /\ rule[2] >= 0 /\ rule[2] < NumCategories

InterpretationSharedAndUnchanged ==
  /\ \A i \in DOMAIN tr_mem.m_i : tr_mem.m_i[i] = tr_mem.inter
  /\ tr_mem.objects[tr_mem.inter] = Interpretation
  /\ Len(tr_mem.objects) = Len(InitialMemory.objects)

\* mutate has just changed a classifier that crossover built in the last
\* reproduction step.
InterpretationSharedWitness ==
  /\ tr_last \in {"add", "pop_other"}
  /\ tr_p \in tr_child
  /\ Len(tr_pop[tr_p]) = ModifyFrom

\* The numbers a generator seeded with state gives in its first n draws.
RECURSIVE DrawsFrom(_, _)
DrawsFrom(state, n) ==
  IF n = 0 THEN <<>> ELSE <<NextRng(state)>> \o DrawsFrom(NextRng(state), n - 1)

\* C29: the classifier of each trial depends only on its own seed: all
\* seeds are drawn from the master generator before any trial is
\* dispatched, and the trials share no generator, so the sequence of trial
\* results is the same under every interleaving of the trials.
TrialsDependOnOwnSeed ==
  /\ Len(futures) > 0 => seeds = DrawsFrom(par_seed, trials)
  /\ par_pc \in {"dispatch", "join", "collect", "report", "done"} =>
       /\ seeds = DrawsFrom(par_seed, trials)
       /\ rngs[0] = IF trials = 0 THEN par_seed ELSE seeds[trials]
  /\ Aggregating =>
       \A k \in DOMAIN bests : outs[bests[k]] = DrawsFrom(seeds[k], MaxDraws)

\* The results of at least two trials are in, and each trial has drawn all
\* its numbers.
TrialsOwnSeedWitness ==
  /\ Aggregating
  /\ trials >= 2
  /\ \A k \in DOMAIN bests : Len(outs[k]) = MaxDraws

MakeTrianglesCalled == fn_args.fn = "make_triangles" /\ Len(fn_result) = 1

\* C26: make_triangles(n, begin, end, floor, ceil) returns exactly n
\* membership functions for every n >= 2 and an empty sequence for n < 2.
MakeTrianglesReturnsN ==
  MakeTrianglesCalled =>
    /\ fn_result[1].returned
    /\ Len(fn_result[1].triangles) = IF fn_args.n < 2 THEN 0 ELSE fn_args.n

\* The same for the n whose n - 2 the loop counter can count to.
MakeTrianglesReturnsNWithinCounter ==
  (MakeTrianglesCalled /\ fn_args.n <= 2 ^ CounterBits + 1) =>
    /\ fn_result[1].returned
    /\ Len(fn_result[1].triangles) = IF fn_args.n < 2 THEN 0 ELSE fn_args.n

====
